---- MODULE Spec2Model ----
(***************************************************************************)
(* Model of the user-data reconciliation and broadcast subsystem of        *)
(* backend/main.py: the OrderStore, the user-stream listener and event     *)
(* processor, the debounced broadcaster, the user WebSocket channel and    *)
(* the staleness watchdog.                                                 *)
(*                                                                         *)
(* The module holds several specifications over disjoint groups of         *)
(* variables; each specification pins the groups it does not use.          *)
(*   SpecStore : OrderStore operations called by concurrent asyncio tasks  *)
(*   SpecPipe  : stream listener -> event queue -> processor -> Store ->   *)
(*               notification queue -> debounced broadcaster               *)
(*   SpecUser  : the /ws/user channel: connection handlers and the tasks   *)
(*               that broadcast to the user connections                    *)
(*   SpecWatchdog : the stale-stream watchdog against a clock              *)
(*   SpecListener : the user-stream listener and its session token         *)
(***************************************************************************)
EXTENDS Integers, Sequences, FiniteSets, TLC

VARIABLES
    \* ---- OrderStore (main.py 64-311) and its callers
    orders,         \* self.orders: orderId -> order dict
    open_orders,    \* self.open_orders: set of order ids
    history,        \* self._history: deque(maxlen=_history_max) of order copies
    balances,       \* self.balances: ASSET -> [asset, free, locked]
    oco_lists,      \* self.oco_lists: orderListId -> list-status event
    db,             \* the orders_history table: order_id -> row
    lock,           \* self._lock: NoTask when free, else the task holding it
    pc,             \* per task: "idle", "lock" (waiting in acquire) or "put" (waiting in queue.put)
    arg,            \* per task: the call a waiting task will run / the notification it will put
    bqueue,         \* _order_store_broadcast_queue
    nCalls,         \* number of Store calls started (bounds the exploration)
    \* ---- listener, event processor and broadcaster (main.py 868-1076)
    received,       \* number of messages read from the user stream so far
    event_queue,    \* _user_stream_event_queue
    accepted,       \* the events put_nowait accepted, in order (observation only)
    dropped,        \* the events dropped on a full queue (observation only)
    ppc,            \* processor: "get" (waiting in queue.get) or "put" (inside a Store call, waiting in queue.put)
    pnote,          \* the notification a suspended Store call will enqueue
    applied,        \* the events applied to the Store, in order (observation only)
    emitted,        \* the notifications the Store enqueued, in order (observation only)
    bpc,            \* broadcaster: "first" (blocking get) or "window" (collecting)
    pending,        \* broadcaster: pending
    envelopes,      \* the order_store_batch envelopes flushed so far
    window_elapsed, \* broadcaster: loop.time() - window_start, in ms
    batch_age,      \* ms since the first notification of the batch was dequeued
    \* ---- the user channel (main.py 362-402, 509-520, 1571-1640)
    user_connections,   \* manager.user_connections (a list)
    hpc,            \* per connection: where websocket_user_endpoint is
    wsOpen,         \* per connection: the peer has not closed the socket
    inbox,          \* per connection: the types of the messages sent to it, in order
    iter,           \* per broadcasting task: the broadcast_to_user loop it is in
    nUserOps,       \* broadcasts started and client requests handled
    heartbeat_tasks, \* self.heartbeat_tasks: connection -> its _heartbeat_loop task
    \* ---- ConnectionManager: the connection limit (main.py 320-370)
    market_connections, \* manager.market_connections (a list)
    accepting,      \* sockets whose connect_market awaits websocket.accept()
    policy_closed,  \* sockets closed with code 1008
    nextSocket,     \* the next socket to ask for a connection
    nDisconnects,   \* disconnections so far
    \* ---- Readers of the finalized orders (main.py 242-246, crud.py 115-183)
    snapshot,       \* what the last snapshot_history call returned, and from what
    upserted,       \* the last direct upsert_final_order call and the branch it took
    pager,          \* a client that reads the orders_history table page by page
    \* ---- websocket_user_endpoint building an orders_snapshot (main.py 1582-1627)
    view,           \* what the handler has read from the Store and sent
    \* ---- order notifications from the Store to the subscribers (main.py 184-187, 1032-1068)
    produced,       \* per notification enqueued: the order right after its report (observation only)
    note_batch,     \* order_store_broadcaster: pending
    delivered,      \* per notification sent: the order as the subscriber was shown it
    \* ---- lifespan and the loop tasks it starts and cancels (main.py 743-811)
    lifespan,       \* "boot", "serving" or "shutdown" (the finally clause has run)
    loops,          \* per loop task: "absent", "running", "cancelling" or "done"
    \* ---- BinanceWSApiClient (ws_api_client.py 152-312)
    request_id,     \* self._request_id
    pending_requests,   \* the keys of self._pending_requests
    futures,        \* per request id: the state of its future
    rpc,            \* per request id: where its _send_request call is
    is_connected,   \* self.is_connected
    dpc,            \* disconnect(): "idle", or "closing" (awaiting the tasks and the socket)
    \* ---- MarketDataManager (market_data_manager.py)
    symbol_subscribers,  \* self.symbol_subscribers: per symbol, the subscribed clients
    active_streams,      \* self.active_streams: per symbol, absent or [thread, connected]
    stream_threads,      \* per started stream thread: "unstarted", "running" or "closed"
    reconnect_timers,    \* the symbols a threading.Timer of _on_close is pending for
    should_reconnect,    \* self.should_reconnect
    \* ---- the watchdog (main.py 1209-1292) and the clock
    now,            \* loop.time(), in seconds
    last_event_time,    \* _user_stream_last_event_time
    last_fallback_ts,   \* the watchdog's last_fallback_ts
    wakeAt,         \* when the watchdog's sleep(check_interval) is over
    episode,        \* what the watchdog delivered since the last applied event
    \* ---- the listener (main.py 868-922)
    lpc,            \* where user_data_stream_listener is
    listen_key,     \* _user_stream_listen_key
    connKey,        \* the key in the ws_url of the current connection attempt
    reconnect_delay,    \* the listener's reconnect_delay
    nKeys,          \* listen keys issued so far
    connection_errors,  \* _user_stream_connection_errors
    \* ---- the keepalive loop (main.py 582-612)
    kpc,            \* where _user_stream_keepalive_loop is
    kKey,           \* the key passed to the keepalive call in flight
    last_keepalive, \* _user_stream_last_keepalive: "none", "fresh" or "aged"
    keepalive_errors,   \* _user_stream_keepalive_errors
    restarts,       \* _user_stream_restarts
    klog            \* the gateway calls of the keepalive loop, with their outcome

storeVars == <<orders, open_orders, history, balances, oco_lists, db>>
taskVars == <<lock, pc, arg, bqueue, nCalls>>
winVars == <<window_elapsed, batch_age>>
pipeVars == <<received, event_queue, accepted, dropped, ppc, pnote, applied, emitted,
              bpc, pending, envelopes, winVars>>
userVars == <<user_connections, hpc, wsOpen, inbox, iter, nUserOps, heartbeat_tasks>>
watchVars == <<now, last_event_time, last_fallback_ts, wakeAt, episode>>
listenVars == <<lpc, listen_key, connKey, reconnect_delay, nKeys, connection_errors>>
keepVars == <<kpc, kKey, last_keepalive, keepalive_errors, restarts, klog>>
connVars == <<market_connections, accepting, policy_closed, nextSocket, nDisconnects>>
readVars == <<snapshot, pager, upserted>>
noteVars == <<produced, note_batch, delivered>>
shutVars == <<lifespan, loops>>
apiVars == <<request_id, pending_requests, futures, rpc, is_connected, dpc>>
marketVars == <<symbol_subscribers, active_streams, stream_threads, reconnect_timers,
               should_reconnect>>
moreVars == <<view, noteVars, shutVars, apiVars, marketVars>>
chanVars == <<userVars, watchVars, listenVars, keepVars, connVars, readVars, moreVars>>
vars == <<storeVars, taskVars, pipeVars, userVars, watchVars, listenVars, keepVars, connVars,
          readVars, moreVars>>

Min(a, b) == IF a < b THEN a ELSE b

-----------------------------------------------------------------------------
\* Bounds of the exploration
MaxCalls == 3        \* Store calls per behaviour
MaxBroadcastQueue == 1   \* stands for asyncio.Queue(maxsize=200), main.py 36
MaxEventQueue == 2       \* stands for asyncio.Queue(maxsize=1000), main.py 35
MaxMessages == 5         \* messages read from the user stream per behaviour
MaxUserOps == 1          \* broadcasts and client requests on the user channel
MaxTime == 22            \* seconds of clock time explored
MaxKeys == 3             \* listen keys issued per behaviour
MaxErrors == 3           \* cap on the connection error counter
MaxKeepalives == 2       \* keepalive calls sent per behaviour
MaxSockets == 11         \* sockets that ask for a connection
MaxAccepting == 2        \* connect_market calls suspended in accept at once
MaxDisconnects == 1      \* disconnections per behaviour
MaxRows == 4             \* order ids of the orders_history table
MaxRequests == 2         \* requests sent through BinanceWSApiClient
MaxStreams == 3          \* stream threads MarketDataManager starts

\* self._history_max
HistoryMax == 200

NoTask == "none"
Tasks == {"processor", "watchdog"}

\* Exchange order ids; NoOrderId stands for a missing (None) or falsy id
OrderIds == {1, 2}
NoOrderId == 0

\* Event timestamps E (epoch ms); 0 stands for a missing one
Timestamps == {1, 2}

\* OrderStore._final_statuses
FinalStatuses == {"FILLED", "CANCELED", "REJECTED", "EXPIRED"}
OpenStatuses == {"NEW", "PARTIALLY_FILLED"}

\* OrderStore._map_status: None stays None, CANCELLED is normalised, the rest maps to itself
MapStatus(raw_status) ==
    IF raw_status = "None" THEN "None"
    ELSE IF raw_status = "CANCELLED" THEN "CANCELED"
    ELSE raw_status

-----------------------------------------------------------------------------
\* Inputs

\* The shapes of execution report the exchange sends: raw status X, execution
\* type x, last filled quantity l, cumulative filled quantity z and cumulative
\* quote quantity Z. Quantities and prices are counted in units of 0.00000001,
\* the precision the Store keeps them with.
ReportShapes ==
    { [status |-> "NEW",              execType |-> "NEW",      lastQty |-> 0, cumQty |-> 0,
       cumQuote |-> 0],
      [status |-> "PARTIALLY_FILLED", execType |-> "TRADE",    lastQty |-> 1, cumQty |-> 1,
       cumQuote |-> 2],
      [status |-> "FILLED",           execType |-> "TRADE",    lastQty |-> 1, cumQty |-> 2,
       cumQuote |-> 3],
      [status |-> "CANCELLED",        execType |-> "CANCELED", lastQty |-> 0, cumQty |-> 0,
       cumQuote |-> 0],
      [status |-> "None",             execType |-> "NEW",      lastQty |-> 0, cumQty |-> 0,
       cumQuote |-> 0] }

\* The symbol the exchange names for an order, in reports and REST snapshots alike
SymbolOf(o) ==
    IF o % 2 = 1 THEN "BTCUSDT" ELSE "ETHUSDT"

\* The normalized execution reports user_data_event_processor hands to the Store.
\* A report without an order id is tried in one shape only. durable is what the
\* durable upsert will do if the report finalizes the order: here it succeeds.
Reports ==
    { [orderId |-> o, eventTime |-> ts, status |-> sh.status, execType |-> sh.execType,
       lastQty |-> sh.lastQty, cumQty |-> sh.cumQty, cumQuote |-> sh.cumQuote,
       symbol |-> SymbolOf(o), durable |-> "ok"] :
         o \in OrderIds, ts \in Timestamps, sh \in ReportShapes }
    \cup { [orderId |-> NoOrderId, eventTime |-> 1, status |-> "NEW", execType |-> "NEW",
            lastQty |-> 0, cumQty |-> 0, cumQuote |-> 0, symbol |-> "", durable |-> "ok"] }

\* The same reports, and those among them during which the durable upsert raises
FinalReports ==
    Reports \cup { [r EXCEPT !.durable = "raises"] : r \in Reports }

\* Mutant of Upper: the asset name is used as given
AsGiven(asset) ==
    asset

\* str.upper() on the asset names that occur
Upper(asset) ==
    CASE asset \in {"btc", "Btc"} -> "BTC"
      [] asset = "eth" -> "ETH"
      [] asset = "btcusdt" -> "BTCUSDT"
      [] OTHER -> asset

\* REST snapshots handed to merge_rest_open_orders: the ids the open-orders list
\* names (NoOrderId: an entry without an id), the status its entries carry
\* ("None": no status field), their executedQty and cummulativeQuoteQty (0: no
\* such field) and the /account balances list (empty: the fetch failed or
\* returned nothing)
RestSnapshots ==
    { [ids |-> ids, status |-> "None", executedQty |-> 0, cummulativeQuoteQty |-> 0,
       balances |-> <<>>] :
          ids \in SUBSET (OrderIds \cup {NoOrderId}) }
    \cup { [ids |-> ids, status |-> "PARTIALLY_FILLED", executedQty |-> 3,
            cummulativeQuoteQty |-> 2,
            balances |-> <<[asset |-> "btc", free |-> 1, locked |-> 0]>>] :
              ids \in SUBSET OrderIds }

\* outboundAccountPosition events: the balances array B
AccountPositions ==
    { <<[asset |-> "btc", free |-> 2, locked |-> 1]>> }

\* balanceUpdate events: asset a and signed delta d
BalanceUpdates ==
    { [asset |-> "btc", delta |-> 0 - 1] }

\* outboundAccountPosition events with one or several assets, in any letter
\* case, and with an entry that names no asset
PositionEvents ==
    { <<[asset |-> "btc", free |-> 2, locked |-> 1]>>,
      <<[asset |-> "eth", free |-> 5, locked |-> 0], [asset |-> "", free |-> 9, locked |-> 9]>>,
      <<[asset |-> "Btc", free |-> 3, locked |-> 0], [asset |-> "BTC", free |-> 4, locked |-> 1]>> }

\* balanceUpdate events for known and unknown assets, in any letter case, and
\* one that names no asset
BalanceEvents ==
    { [asset |-> "btc", delta |-> 0 - 1],
      [asset |-> "BTC", delta |-> 1],
      [asset |-> "eth", delta |-> 2],
      [asset |-> "", delta |-> 1] }

\* REST snapshots without open orders: the /account balances list
BalanceSnapshots ==
    { [ids |-> {}, status |-> "None", executedQty |-> 0, cummulativeQuoteQty |-> 0,
       balances |-> b] :
          b \in { <<>>,
                  <<[asset |-> "Btc", free |-> 1, locked |-> 0]>>,
                  <<[asset |-> "", free |-> 1, locked |-> 0]>> } }

\* The outcomes of the two REST calls of a watchdog fallback: whether
\* get_open_orders_async returned a list (it returns None when the call fails)
\* and which ids it lists, whether get_account_info_async returned the account
\* and the balances in it
FallbackFetches ==
    { [open_ok |-> TRUE, ids |-> ids, account_ok |-> a.ok, balances |-> a.balances] :
          ids \in SUBSET OrderIds,
          a \in { [ok |-> TRUE, balances |-> <<[asset |-> "btc", free |-> 1, locked |-> 0]>>],
                  [ok |-> FALSE, balances |-> <<>>] } }
    \cup { [open_ok |-> FALSE, ids |-> {}, account_ok |-> a.ok, balances |-> a.balances] :
          a \in { [ok |-> TRUE, balances |-> <<[asset |-> "btc", free |-> 1, locked |-> 0]>>],
                  [ok |-> FALSE, balances |-> <<>>] } }

\* What fallback_user_stream_watchdog hands to merge_rest_open_orders
\* (main.py 1237-1262): snapshot_open stays [] unless the open orders call
\* returned a list, snapshot_balances stays [] unless the account call
\* returned a dict
FetchedSnapshot(fetch) ==
    [ids |-> IF fetch.open_ok THEN fetch.ids ELSE {},
     status |-> "None", executedQty |-> 0, cummulativeQuoteQty |-> 0,
     balances |-> IF fetch.account_ok THEN fetch.balances ELSE <<>>,
     open_ok |-> fetch.open_ok, account_ok |-> fetch.account_ok]

\* listStatus events: orderListId (0: missing)
ListStatuses ==
    { [orderListId |-> 1], [orderListId |-> 0] }

NoNote == [type |-> "none", orderId |-> NoOrderId, assets |-> {}]

-----------------------------------------------------------------------------
\* f"{x:.8f}" of a quotient: the number of units of 0.00000001 in 1
Scale == 100000000

\* Mutant of Divide8: the quotient is cut off after the eighth decimal
Truncate8(quote, executed) ==
    (quote * Scale) \div executed

\* f"{float(cummulativeQuoteQty) / executed:.8f}" (main.py 159): the quotient
\* rounded to the eighth decimal
Divide8(quote, executed) ==
    (2 * quote * Scale + executed) \div (2 * executed)

\* OrderStore.apply_execution_report, lines 99-164: the order dict after the report
ExecOrder(rep) ==
    LET oid == rep.orderId
        status == MapStatus(rep.status)
        existing == IF oid \in DOMAIN orders
                    THEN orders[oid]
                    ELSE [status |-> status, updateTime |-> rep.eventTime,
                          symbol |-> rep.symbol, fills |-> <<>>, executedQty |-> 0,
                          cummulativeQuoteQty |-> 0, avgPrice |-> 0]
        filled == IF rep.execType = "TRADE" /\ rep.lastQty > 0
                  THEN [existing EXCEPT !.fills = Append(@, [qty |-> rep.lastQty])]
                  ELSE existing
        executed == IF rep.cumQty # 0
                    THEN [filled EXCEPT !.executedQty = rep.cumQty]
                    ELSE filled
        quoted == IF rep.cumQuote # 0
                  THEN [executed EXCEPT !.cummulativeQuoteQty = rep.cumQuote]
                  ELSE executed
        cumulated == IF quoted.executedQty > 0
                     THEN [quoted EXCEPT !.avgPrice =
                              Divide8(quoted.cummulativeQuoteQty, quoted.executedQty)]
                     ELSE quoted
    IN  [cumulated EXCEPT !.status = status,
                          !.updateTime = IF rep.eventTime # 0 THEN rep.eventTime ELSE @]

\* self._history.append({**existing}) on a deque(maxlen=_history_max). The copy is
\* shallow: the scalar fields are copied, the fills list stays the order's own list.
HistoryAppend(h, oid, order) ==
    LET entry == [orderId |-> oid, status |-> order.status,
                  updateTime |-> order.updateTime, executedQty |-> order.executedQty]
        appended == Append(h, entry)
    IN  IF Len(appended) > HistoryMax THEN Tail(appended) ELSE appended

\* Mutant of NewerWins: the row is overwritten whatever the timestamps
AlwaysOverwrite(new_ut, current_ut) ==
    TRUE

\* crud.upsert_final_order, line 80: new_ut and new_ut > current_ut (0: None)
NewerWins(new_ut, current_ut) ==
    new_ut # 0 /\ new_ut > current_ut

\* crud.upsert_final_order: insert the row, or overwrite status, quantities and
\* update time of the row there is when the update time is newer
UpsertFinalOrder(table, oid, order) ==
    IF oid \in DOMAIN table
    THEN IF NewerWins(order.updateTime, table[oid].update_time)
         THEN (oid :> [table[oid] EXCEPT
                          !.status = IF order.status = "None" THEN @ ELSE order.status,
                          !.executed_qty = order.executedQty,
                          !.avg_price = order.avgPrice,
                          !.cumm_quote = order.cummulativeQuoteQty,
                          !.update_time = order.updateTime]) @@ table
         ELSE table
    ELSE (oid :> [symbol |-> order.symbol, status |-> order.status,
                  executed_qty |-> order.executedQty, avg_price |-> order.avgPrice,
                  cumm_quote |-> order.cummulativeQuoteQty,
                  update_time |-> order.updateTime]) @@ table

\* The branch upsert_final_order takes: the insert (lines 92-107), the
\* overwrite (81-89) or neither
UpsertBranch(table, oid, order) ==
    IF oid \notin DOMAIN table THEN "insert"
    ELSE IF NewerWins(order.updateTime, table[oid].update_time) THEN "overwrite"
    ELSE "keep"

NoStats == [added |-> 0, removed |-> 0, placeholders |-> 0]

\* The order is pushed to history and persisted when the status it now has is final
\* (main.py 173)
PushesHistory(oid, status) ==
    status \in FinalStatuses

\* Mutant of FailureSwallowed: the exception of the durable write leaves
\* apply_execution_report, the queue put is not reached
FailurePropagates(durable, note) ==
    IF durable = "raises" THEN NoNote ELSE note

\* try: upsert_final_order(existing) / except Exception: logger.debug
\* (main.py 179-183): the queue put that follows is reached either way
FailureSwallowed(durable, note) ==
    note

\* OrderStore.apply_execution_report up to the queue put: the Store after the
\* report and the notification to enqueue (NoNote on the early return)
ApplyExecutionReportBody(rep) ==
    LET oid == rep.orderId IN
    IF oid = NoOrderId
    THEN [orders |-> orders, open |-> open_orders, history |-> history,
          balances |-> balances, oco |-> oco_lists, db |-> db, note |-> NoNote,
          stats |-> NoStats]
    ELSE LET existing == ExecOrder(rep)
             status == existing.status
             final == PushesHistory(oid, status)
         IN  [orders |-> (oid :> existing) @@ orders,
              open |-> IF status \in OpenStatuses
                       THEN open_orders \cup {oid}
                       ELSE open_orders \ {oid},
              history |-> IF final THEN HistoryAppend(history, oid, existing) ELSE history,
              balances |-> balances,
              oco |-> oco_lists,
              db |-> IF final /\ rep.durable = "ok"
                     THEN UpsertFinalOrder(db, oid, existing)
                     ELSE db,
              note |-> LET delta == [type |-> "order_delta", orderId |-> oid, assets |-> {}]
                       IN  IF final THEN FailureSwallowed(rep.durable, delta) ELSE delta,
              stats |-> NoStats]

\* The balance map after writing the entries of a list in order (later entries of
\* the same asset overwrite earlier ones); entries without an asset are skipped
RECURSIVE WriteBalances(_, _)
WriteBalances(map, list) ==
    IF list = <<>> THEN map
    ELSE LET b == Head(list)
             next == IF b.asset = ""
                     THEN map
                     ELSE (Upper(b.asset) :> [asset |-> Upper(b.asset), free |-> b.free,
                                              locked |-> b.locked]) @@ map
         IN  WriteBalances(next, Tail(list))

\* OrderStore.apply_account_position up to the queue put
ApplyAccountPositionBody(pos) ==
    LET written == WriteBalances(balances, pos) IN
    [orders |-> orders, open |-> open_orders, history |-> history,
     balances |-> written, oco |-> oco_lists, db |-> db,
     note |-> [type |-> "balance_delta", orderId |-> NoOrderId, assets |-> DOMAIN written],
     stats |-> NoStats]

\* Mutant of FreeAfter: the delta replaces the free amount
FreeReplaced(free, delta) ==
    delta

\* float(bal['free']) + float(delta), kept with eight decimals (main.py 213-214)
FreeAfter(free, delta) ==
    free + delta

\* OrderStore.apply_balance_update up to the queue put
ApplyBalanceUpdateBody(upd) ==
    IF upd.asset = ""
    THEN [orders |-> orders, open |-> open_orders, history |-> history,
          balances |-> balances, oco |-> oco_lists, db |-> db, note |-> NoNote,
          stats |-> NoStats]
    ELSE LET key == Upper(upd.asset)
             bal == IF key \in DOMAIN balances THEN balances[key]
                    ELSE [asset |-> key, free |-> 0, locked |-> 0]
             updated == [bal EXCEPT !.free = FreeAfter(@, upd.delta)]
         IN  [orders |-> orders, open |-> open_orders, history |-> history,
              balances |-> (key :> updated) @@ balances, oco |-> oco_lists, db |-> db,
              note |-> [type |-> "balance_delta", orderId |-> NoOrderId, assets |-> {key}],
              stats |-> NoStats]

\* OrderStore.apply_list_status up to the queue put
ApplyListStatusBody(evt) ==
    IF evt.orderListId = 0
    THEN [orders |-> orders, open |-> open_orders, history |-> history,
          balances |-> balances, oco |-> oco_lists, db |-> db, note |-> NoNote,
          stats |-> NoStats]
    ELSE [orders |-> orders, open |-> open_orders, history |-> history,
          balances |-> balances, oco |-> (evt.orderListId :> evt) @@ oco_lists, db |-> db,
          note |-> [type |-> "list_status_delta", orderId |-> NoOrderId, assets |-> {}],
          stats |-> NoStats]

\* The orders map after the placeholder loop of merge_rest_open_orders (262-285)
MergedOrders(rest_ids, rest) ==
    LET placeholder(o) ==
                       [status |-> IF rest.status = "None" THEN "NEW" ELSE rest.status,
                        updateTime |-> 0, symbol |-> SymbolOf(o), fills |-> <<>>,
                        executedQty |-> rest.executedQty,
                        cummulativeQuoteQty |-> rest.cummulativeQuoteQty,
                        avgPrice |-> 0]
    IN  [o \in DOMAIN orders \cup rest_ids |->
            IF o \in DOMAIN orders THEN orders[o] ELSE placeholder(o)]

\* Mutant of MergedOpen: the ids the snapshot no longer lists stay open
MergedOpenKeepsMissing(rest_ids) ==
    open_orders \cup rest_ids

\* The open set after merge_rest_open_orders (287-292): every REST id is added,
\* then every open id the snapshot does not list is discarded
MergedOpen(rest_ids) ==
    LET added == open_orders \cup rest_ids
        to_remove == {o \in added : o \notin rest_ids}
    IN  added \ to_remove

\* OrderStore.merge_rest_open_orders: the Store after the merge and the stats returned
MergeRestOpenOrdersBody(rest) ==
    LET rest_ids == {o \in rest.ids : o # NoOrderId}
        to_remove == {o \in open_orders \cup rest_ids : o \notin rest_ids}
    IN  [orders |-> MergedOrders(rest_ids, rest),
         open |-> MergedOpen(rest_ids),
         history |-> history,
         balances |-> IF rest.balances # <<>>
                      THEN WriteBalances(<<>>, rest.balances)
                      ELSE balances,
         oco |-> oco_lists,
         db |-> db,
         note |-> NoNote,
         stats |-> [added |-> Cardinality(rest_ids),
                    removed |-> Cardinality(to_remove),
                    placeholders |-> Cardinality(rest_ids \ DOMAIN orders)]]

-----------------------------------------------------------------------------
\* Store calls made by concurrent asyncio tasks. A task runs without interruption
\* between two awaits; inside a Store method the awaits are the acquisition of
\* self._lock (suspends only when the lock is taken) and the put into the
\* bounded notification queue (suspends only when the queue is full).

NoOp == [kind |-> "none", data |-> NoNote]

\* What the method of a call does between acquiring the lock and the queue put
Body(op) ==
    CASE op.kind = "exec" -> ApplyExecutionReportBody(op.data)
      [] op.kind = "position" -> ApplyAccountPositionBody(op.data)
      [] op.kind = "balance" -> ApplyBalanceUpdateBody(op.data)
      [] op.kind = "list" -> ApplyListStatusBody(op.data)
      [] op.kind = "merge" -> MergeRestOpenOrdersBody(op.data)

\* Mutant of LockAvailable: the method body is entered without the lock
LockIgnored ==
    TRUE

\* asyncio.Lock.acquire returns at once when the lock is free and nobody waits for it
LockAvailable ==
    lock = NoTask

NoWaiter ==
    \A t \in Tasks : pc[t] # "lock"

\* async with self._lock: <body>; await queue.put(note) -- from the moment the
\* lock is obtained to the next suspension or to the return
Run(t, op) ==
    LET r == Body(op) IN
    /\ orders' = r.orders
    /\ open_orders' = r.open
    /\ history' = r.history
    /\ balances' = r.balances
    /\ oco_lists' = r.oco
    /\ db' = r.db
    /\ IF r.note = NoNote
       THEN /\ lock' = NoTask
            /\ pc' = [pc EXCEPT ![t] = "idle"]
            /\ arg' = [arg EXCEPT ![t] = NoOp]
            /\ bqueue' = bqueue
       ELSE IF Len(bqueue) < MaxBroadcastQueue
       THEN /\ lock' = NoTask
            /\ pc' = [pc EXCEPT ![t] = "idle"]
            /\ arg' = [arg EXCEPT ![t] = NoOp]
            /\ bqueue' = Append(bqueue, r.note)
       ELSE /\ lock' = t
            /\ pc' = [pc EXCEPT ![t] = "put"]
            /\ arg' = [arg EXCEPT ![t] = [kind |-> "note", data |-> r.note]]
            /\ bqueue' = bqueue

\* A task calls a Store method
StartCall(t, op) ==
    /\ pc[t] = "idle"
    /\ nCalls < MaxCalls
    /\ nCalls' = nCalls + 1
    /\ IF LockAvailable /\ NoWaiter
       THEN Run(t, op)
       ELSE /\ pc' = [pc EXCEPT ![t] = "lock"]
            /\ arg' = [arg EXCEPT ![t] = op]
            /\ UNCHANGED <<storeVars, lock, bqueue>>

\* user_data_event_processor: executionReport -> order_store.apply_execution_report
ApplyExecutionReport(rep) ==
    /\ StartCall("processor", [kind |-> "exec", data |-> rep])
    /\ UNCHANGED <<pipeVars, chanVars>>

\* user_data_event_processor: outboundAccountPosition -> apply_account_position
ApplyAccountPosition(pos) ==
    /\ StartCall("processor", [kind |-> "position", data |-> pos])
    /\ UNCHANGED <<pipeVars, chanVars>>

\* user_data_event_processor: balanceUpdate -> apply_balance_update
ApplyBalanceUpdate(upd) ==
    /\ StartCall("processor", [kind |-> "balance", data |-> upd])
    /\ UNCHANGED <<pipeVars, chanVars>>

\* user_data_event_processor: listStatus -> apply_list_status
ApplyListStatus(evt) ==
    /\ StartCall("processor", [kind |-> "list", data |-> evt])
    /\ UNCHANGED <<pipeVars, chanVars>>

\* fallback_user_stream_watchdog / place-order endpoint: merge_rest_open_orders
MergeRestOpenOrders(rest) ==
    /\ StartCall("watchdog", [kind |-> "merge", data |-> rest])
    /\ UNCHANGED <<pipeVars, chanVars>>

\* A task waiting in self._lock.acquire() obtains the lock
AcquireLock(t) ==
    /\ pc[t] = "lock"
    /\ LockAvailable
    /\ nCalls' = nCalls
    /\ Run(t, arg[t])
    /\ UNCHANGED <<pipeVars, chanVars>>

\* A task waiting in _order_store_broadcast_queue.put() finds room, enqueues and
\* leaves the async with block
CompletePut(t) ==
    /\ pc[t] = "put"
    /\ Len(bqueue) < MaxBroadcastQueue
    /\ bqueue' = Append(bqueue, arg[t].data)
    /\ lock' = NoTask
    /\ pc' = [pc EXCEPT ![t] = "idle"]
    /\ arg' = [arg EXCEPT ![t] = NoOp]
    /\ UNCHANGED <<storeVars, nCalls, pipeVars, chanVars>>

\* order_store_broadcaster takes the next notification off the queue
BroadcasterGet ==
    /\ bqueue # <<>>
    /\ bqueue' = Tail(bqueue)
    /\ UNCHANGED <<storeVars, lock, pc, arg, nCalls, pipeVars, chanVars>>

\* Connections of the /ws/user channel and the tasks that broadcast to it
Conns == {"c1", "c2"}
Senders == {"broadcaster", "heartbeat", "watchdog"}
Msg(type) == [type |-> type, fallback |-> FALSE]
FallbackSnapshot == [type |-> "orders_snapshot", fallback |-> TRUE]
\* A broadcast_to_user loop: its message, the index of the list iterator and the
\* disconnected list; targets (the connections registered when it began) and
\* got (those the message was sent to) are kept for the properties
NoIter == [msg |-> Msg("none"), idx |-> 0, failed |-> <<>>, targets |-> {}, got |-> {}]

\* upsert_final_order has not been called
NoUpsert == [branch |-> "none"]

\* cursor=None of get_orders_history_page
NoCursor == 0

\* The page size get_orders_history_page uses for a limit that is not positive
DefaultLimit == 50

\* No snapshot_history call has returned yet
NoSnapshot == [limit |-> 0, items |-> <<>>, from |-> <<>>]

\* No page of the orders_history table has been asked for yet
NoPager == [state |-> "idle", symbol |-> "", limit |-> 0, cursor |-> NoCursor,
            has_more |-> FALSE, pages |-> <<>>, table |-> {}]

\* The loop tasks of the process: the three of the user stream, the user
\* channel heartbeat, the watchdog, the order store broadcaster and the
\* heartbeat tasks of two connections
ConnectionHeartbeats == {"heartbeat_c1", "heartbeat_c2"}
LoopTasks == {"keepalive", "listener", "processor", "user_heartbeat", "watchdog",
              "broadcaster"} \cup ConnectionHeartbeats

\* The tasks lifespan cancels in its finally clause: those it holds in a
\* global (795-804) and the values of manager.heartbeat_tasks (807-809).
\* asyncio.create_task(order_store_broadcaster()) keeps no handle (747)
CancelledAtShutdown == {"keepalive", "listener", "processor", "user_heartbeat", "watchdog"}
                           \cup ConnectionHeartbeats

\* The symbols clients subscribe to, the market clients, the stream threads
\* _start_symbol_stream can start, and the value of a missing active_streams key
MarketSymbols == {"BTCUSDT", "ETHUSDT"}
MarketClients == {"m1", "m2"}
StreamThreads == 1..MaxStreams
NoStream == [thread |-> 0, connected |-> FALSE]

\* The request ids _get_next_request_id hands out
RequestIds == 1..MaxRequests

\* websocket_user_endpoint has not read the Store yet
NoView == [pc |-> "idle", openOrders |-> {}, balances |-> <<>>, history |-> <<>>,
           history_at_open |-> <<>>, open_at_history |-> {}, balances_at_history |-> <<>>]

\* The remaining tasks before they start
MoreAtRest ==
    /\ view = NoView
    /\ produced = <<>>
    /\ note_batch = <<>>
    /\ delivered = <<>>
    /\ lifespan = "boot"
    /\ loops = [t \in LoopTasks |-> "absent"]
    /\ request_id = 0
    /\ pending_requests = {}
    /\ futures = [id \in RequestIds |-> "none"]
    /\ rpc = [id \in RequestIds |-> "none"]
    /\ is_connected = FALSE
    /\ dpc = "idle"
    /\ symbol_subscribers = [sym \in MarketSymbols |-> {}]
    /\ active_streams = [sym \in MarketSymbols |-> NoStream]
    /\ stream_threads = [n \in StreamThreads |-> [symbol |-> "", state |-> "unstarted"]]
    /\ reconnect_timers = {}
    /\ should_reconnect = TRUE

\* The readers of the finalized orders before their first call
ReadAtRest ==
    /\ snapshot = NoSnapshot
    /\ pager = NoPager
    /\ upserted = NoUpsert
    /\ MoreAtRest

\* The market channel with no connection yet
ConnectAtRest ==
    /\ market_connections = <<>>
    /\ accepting = {}
    /\ policy_closed = {}
    /\ nextSocket = 1
    /\ nDisconnects = 0

\* The user channel with no connection yet
UserAtRest ==
    /\ ConnectAtRest
    /\ ReadAtRest
    /\ user_connections = <<>>
    /\ hpc = [c \in Conns |-> "new"]
    /\ wsOpen = [c \in Conns |-> TRUE]
    /\ inbox = [c \in Conns |-> <<>>]
    /\ iter = [t \in Senders |-> NoIter]
    /\ nUserOps = 0
    /\ heartbeat_tasks = [c \in Conns |-> "absent"]

\* Times are whole seconds; NoTime is Python's None
NoTime == -1
CheckInterval == 2
StaleAfter == 10

\* The watchdog at start: no event seen, no fallback run, first sleep started
WatchdogAtRest ==
    /\ now = 0
    /\ last_event_time = NoTime
    /\ last_fallback_ts = NoTime
    /\ wakeAt = CheckInterval
    /\ episode = <<>>

\* Listen keys are numbered in the order they are issued; NoKey is None
NoKey == 0
ReconnectDelayInit == 5
ReconnectDelayCap == 60

\* Application startup: lifespan is about to request the first listen key and
\* the listener task does not exist yet
ListenerAtRest ==
    /\ lpc = "boot"
    /\ listen_key = NoKey
    /\ connKey = NoKey
    /\ reconnect_delay = ReconnectDelayInit
    /\ nKeys = 0
    /\ connection_errors = 0
    /\ kpc = "absent"
    /\ kKey = NoKey
    /\ last_keepalive = "none"
    /\ keepalive_errors = 0
    /\ restarts = 0
    /\ klog = <<>>

\* The listener, processor and broadcaster before they start
PipeAtRest ==
    /\ received = 0
    /\ event_queue = <<>>
    /\ accepted = <<>>
    /\ dropped = {}
    /\ ppc = "get"
    /\ pnote = 0
    /\ applied = <<>>
    /\ emitted = <<>>
    /\ bpc = "first"
    /\ pending = <<>>
    /\ envelopes = <<>>
    /\ window_elapsed = 0
    /\ batch_age = 0

InitStore ==
    /\ PipeAtRest
    /\ UserAtRest
    /\ WatchdogAtRest
    /\ ListenerAtRest
    /\ orders = <<>>
    /\ open_orders = {}
    /\ history = <<>>
    /\ balances = <<>>
    /\ oco_lists = <<>>
    /\ db = <<>>
    /\ lock = NoTask
    /\ pc = [t \in Tasks |-> "idle"]
    /\ arg = [t \in Tasks |-> NoOp]
    /\ bqueue = <<>>
    /\ nCalls = 0

NextStore ==
    \/ \E rep \in Reports : ApplyExecutionReport(rep)
    \/ \E pos \in AccountPositions : ApplyAccountPosition(pos)
    \/ \E upd \in BalanceUpdates : ApplyBalanceUpdate(upd)
    \/ \E evt \in ListStatuses : ApplyListStatus(evt)
    \/ \E rest \in RestSnapshots : MergeRestOpenOrders(rest)
    \/ \E t \in Tasks : AcquireLock(t)
    \/ \E t \in Tasks : CompletePut(t)
    \/ BroadcasterGet

\* The limits snapshot_history is called with (50 by the user channel)
SnapshotLimits == {0 - 1, 0, 1, 2, 50}

\* list(self._history)[-limit:], or [] for a limit that is not positive
SnapshotOf(h, limit) ==
    IF limit <= 0 THEN <<>>
    ELSE SubSeq(h, IF Len(h) > limit THEN Len(h) - limit + 1 ELSE 1, Len(h))

\* OrderStore.snapshot_history: runs once the lock is free
SnapshotHistory(limit) ==
    /\ LockAvailable
    /\ snapshot' = [limit |-> limit, items |-> SnapshotOf(history, limit), from |-> history]
    /\ UNCHANGED <<storeVars, taskVars, pipeVars, userVars, watchVars, listenVars, keepVars,
                   connVars, pager, upserted, moreVars>>

\* snapshot_history(limit=50) of websocket_user_endpoint
SnapshotLimit == 50

\* websocket_user_endpoint, lines 1583-1584: snapshot_open_orders() and
\* get_balances() once the lock is free; then the handler awaits the send of
\* welcome.  The open orders are kept by id; history_at_open is what the
\* history ring held at that time (observation only)
ViewOpenOrders ==
    /\ view.pc = "idle"
    /\ LockAvailable
    /\ NoWaiter
    /\ view' = [view EXCEPT !.pc = "welcome",
                            !.openOrders = {o \in open_orders : o \in DOMAIN orders},
                            !.balances = balances,
                            !.history_at_open = SnapshotOf(history, SnapshotLimit)]
    /\ UNCHANGED <<storeVars, taskVars, pipeVars, userVars, watchVars, listenVars, keepVars,
                   connVars, readVars, noteVars, shutVars, apiVars, marketVars>>

\* Lines 1596-1604: welcome is sent, snapshot_history(limit=50) runs once the
\* lock is free and the orders_snapshot message is sent with what was read
\* before.  open_at_history and balances_at_history are what the Store held
\* when the history was read (observation only)
ViewHistory ==
    /\ view.pc = "welcome"
    /\ LockAvailable
    /\ NoWaiter
    /\ view' = [view EXCEPT !.pc = "sent",
                            !.history = SnapshotOf(history, SnapshotLimit),
                            !.open_at_history = {o \in open_orders : o \in DOMAIN orders},
                            !.balances_at_history = balances]
    /\ UNCHANGED <<storeVars, taskVars, pipeVars, userVars, watchVars, listenVars, keepVars,
                   connVars, readVars, noteVars, shutVars, apiVars, marketVars>>

\* Lines 1611-1626, a resnapshot request: the three reads follow each other
\* with the lock free, and the message is sent
ViewResnapshot ==
    /\ view.pc = "sent"
    /\ LockAvailable
    /\ NoWaiter
    /\ LET open == {o \in open_orders : o \in DOMAIN orders}
           ring == SnapshotOf(history, SnapshotLimit)
       IN  /\ view' = [pc |-> "sent", openOrders |-> open, balances |-> balances,
                       history |-> ring, history_at_open |-> ring,
                       open_at_history |-> open, balances_at_history |-> balances]
           /\ view' # view
    /\ UNCHANGED <<storeVars, taskVars, pipeVars, userVars, watchVars, listenVars, keepVars,
                   connVars, readVars, noteVars, shutVars, apiVars, marketVars>>

\* The Store under execution reports and fallback merges while a user channel
\* handler builds its snapshot message
NextView ==
    \/ \E rep \in Reports : ApplyExecutionReport(rep)
    \/ \E rest \in BalanceSnapshots : MergeRestOpenOrders(rest)
    \/ \E t \in Tasks : AcquireLock(t)
    \/ \E t \in Tasks : CompletePut(t)
    \/ BroadcasterGet
    \/ ViewOpenOrders
    \/ ViewHistory
    \/ ViewResnapshot

SpecView == InitStore /\ [][NextView]_vars

shutFrame == <<storeVars, taskVars, pipeVars, userVars, watchVars, listenVars, keepVars,
               connVars, readVars, view, noteVars, apiVars, marketVars>>

\* lifespan up to its yield (743-761): the broadcaster, the user channel
\* heartbeat and the watchdog are created; _start_user_stream creates the
\* keepalive task, and with a key the listener and the processor are created;
\* when it raises none of the three is
LifespanStartup(ok) ==
    /\ lifespan = "boot"
    /\ lifespan' = "serving"
    /\ loops' = [t \in LoopTasks |->
                    IF t \in {"broadcaster", "user_heartbeat", "watchdog"} THEN "running"
                    ELSE IF ok /\ t \in {"keepalive", "listener", "processor"} THEN "running"
                    ELSE loops[t]]
    /\ UNCHANGED shutFrame

\* POST /user-stream/start: _start_user_stream creates the keepalive task when
\* there is none or it is done (636-637)
AdminStartKeepalive ==
    /\ lifespan = "serving"
    /\ loops["keepalive"] \in {"absent", "done"}
    /\ loops' = [loops EXCEPT !["keepalive"] = "running"]
    /\ UNCHANGED <<lifespan, shutFrame>>

\* connect_user / connect_market / connect_bot: the heartbeat task of the
\* connection is created (348, 358, 368)
HeartbeatCreate(h) ==
    /\ lifespan = "serving"
    /\ loops[h] \in {"absent", "done"}
    /\ loops' = [loops EXCEPT ![h] = "running"]
    /\ UNCHANGED <<lifespan, shutFrame>>

\* A task ends by itself: a connection heartbeat whose ping fails (449-451),
\* the processor on an event that raises (1009-1012)
LoopEnds(t) ==
    /\ t \in ConnectionHeartbeats \cup {"processor"}
    /\ loops[t] = "running"
    /\ loops' = [loops EXCEPT ![t] = "done"]
    /\ UNCHANGED <<lifespan, shutFrame>>

\* The finally clause of lifespan (794-811): task.cancel() for every task it
\* holds that is not done
LifespanShutdown ==
    /\ lifespan = "serving"
    /\ lifespan' = "shutdown"
    /\ loops' = [t \in LoopTasks |->
                    IF t \in CancelledAtShutdown /\ loops[t] = "running"
                    THEN "cancelling" ELSE loops[t]]
    /\ UNCHANGED shutFrame

\* A cancelled task gets CancelledError at the await it is suspended in and ends
ObserveCancel(t) ==
    /\ loops[t] = "cancelling"
    /\ loops' = [loops EXCEPT ![t] = "done"]
    /\ UNCHANGED <<lifespan, shutFrame>>

NextShutdown ==
    \/ \E ok \in BOOLEAN : LifespanStartup(ok)
    \/ AdminStartKeepalive
    \/ \E h \in ConnectionHeartbeats : HeartbeatCreate(h)
    \/ \E t \in LoopTasks : LoopEnds(t)
    \/ LifespanShutdown
    \/ \E t \in LoopTasks : ObserveCancel(t)

SpecShutdown == InitStore /\ [][NextShutdown]_vars

-----------------------------------------------------------------------------
\* BinanceWSApiClient: requests, their futures and the pending-request map.
\* A _send_request call is "sending" (in websocket.send), "waiting" (in
\* wait_for on its future), or over: "returned", "raised", or "cancelled"
\* (CancelledError left it)

apiFrame == <<storeVars, taskVars, pipeVars, userVars, watchVars, listenVars, keepVars,
              connVars, readVars, view, noteVars, shutVars, marketVars>>

\* _send_request up to its first await after the registration (271-296):
\* connected (connect() succeeded if need be), the id is taken, the future
\* created and registered, and the request is being sent
SendRequest ==
    /\ request_id < MaxRequests
    /\ dpc = "idle"
    /\ request_id' = request_id + 1
    /\ is_connected' = TRUE
    /\ pending_requests' = pending_requests \cup {request_id + 1}
    /\ futures' = [futures EXCEPT ![request_id + 1] = "pending"]
    /\ rpc' = [rpc EXCEPT ![request_id + 1] = "sending"]
    /\ UNCHANGED <<dpc, apiFrame>>

\* websocket.send returns, or raises: except Exception pops the id (306-311)
SendCompletes(id, ok) ==
    /\ rpc[id] = "sending"
    /\ IF ok
       THEN /\ rpc' = [rpc EXCEPT ![id] = "waiting"]
            /\ UNCHANGED pending_requests
       ELSE /\ rpc' = [rpc EXCEPT ![id] = "raised"]
            /\ pending_requests' = pending_requests \ {id}
    /\ UNCHANGED <<request_id, futures, is_connected, dpc, apiFrame>>

\* _process_message for a message with the id of a registered request: the
\* future is popped and, if not done, resolved (219-230)
ProcessMessage(id, error) ==
    /\ is_connected
    /\ dpc = "idle"
    /\ id \in pending_requests
    /\ pending_requests' = pending_requests \ {id}
    /\ futures' = [futures EXCEPT ![id] =
                      IF @ = "pending" THEN (IF error THEN "error" ELSE "result") ELSE @]
    /\ UNCHANGED <<request_id, rpc, is_connected, dpc, apiFrame>>

\* wait_for returns the result or raises the exception of the future; the id
\* is popped on both paths (292, 308)
WaitCompletes(id) ==
    /\ rpc[id] = "waiting"
    /\ futures[id] \in {"result", "error", "connection_error"}
    /\ rpc' = [rpc EXCEPT ![id] = IF futures[id] = "result" THEN "returned" ELSE "raised"]
    /\ pending_requests' = pending_requests \ {id}
    /\ UNCHANGED <<request_id, futures, is_connected, dpc, apiFrame>>

\* wait_for times out: the future is cancelled, except asyncio.TimeoutError
\* pops the id (299-304)
RequestTimeout(id) ==
    /\ rpc[id] = "waiting"
    /\ futures[id] = "pending"
    /\ futures' = [futures EXCEPT ![id] = "cancelled"]
    /\ rpc' = [rpc EXCEPT ![id] = "raised"]
    /\ pending_requests' = pending_requests \ {id}
    /\ UNCHANGED <<request_id, is_connected, dpc, apiFrame>>

\* The task awaiting _send_request is cancelled: CancelledError is raised at
\* the await; it is neither asyncio.TimeoutError nor an Exception, so no
\* except clause of _send_request runs (299-311)
CallerCancelled(id) ==
    /\ rpc[id] \in {"sending", "waiting"}
    /\ rpc' = [rpc EXCEPT ![id] = "cancelled"]
    /\ futures' = [futures EXCEPT ![id] =
                      IF rpc[id] = "waiting" /\ @ = "pending" THEN "cancelled" ELSE @]
    /\ UNCHANGED <<request_id, pending_requests, is_connected, dpc, apiFrame>>

\* disconnect() up to its awaits: is_connected is cleared, the background
\* tasks are cancelled and the socket is being closed (152-182)
DisconnectBegin ==
    /\ dpc = "idle"
    /\ is_connected
    /\ is_connected' = FALSE
    /\ dpc' = "closing"
    /\ UNCHANGED <<request_id, pending_requests, futures, rpc, apiFrame>>

\* The rest of disconnect(): every registered future that is not done gets
\* ConnectionError and the map is cleared (184-188)
DisconnectEnd ==
    /\ dpc = "closing"
    /\ dpc' = "idle"
    /\ futures' = [id \in RequestIds |->
                      IF id \in pending_requests /\ futures[id] = "pending"
                      THEN "connection_error" ELSE futures[id]]
    /\ pending_requests' = {}
    /\ UNCHANGED <<request_id, rpc, is_connected, apiFrame>>

NextApi ==
    \/ SendRequest
    \/ \E id \in RequestIds, ok \in BOOLEAN : SendCompletes(id, ok)
    \/ \E id \in RequestIds, error \in BOOLEAN : ProcessMessage(id, error)
    \/ \E id \in RequestIds : WaitCompletes(id)
    \/ \E id \in RequestIds : RequestTimeout(id)
    \/ \E id \in RequestIds : CallerCancelled(id)
    \/ DisconnectBegin
    \/ DisconnectEnd

SpecApi == InitStore /\ [][NextApi]_vars

-----------------------------------------------------------------------------
\* MarketDataManager: subscriptions, one Binance stream per subscribed symbol,
\* and the callbacks of the stream threads

marketFrame == <<storeVars, taskVars, pipeVars, userVars, watchVars, listenVars, keepVars,
                 connVars, readVars, view, noteVars, shutVars, apiVars>>

\* The threads _start_symbol_stream has started so far
StartedThreads == {n \in StreamThreads : stream_threads[n].state # "unstarted"}

\* _start_symbol_stream (168-202) applied to the maps streams and threads:
\* nothing when the symbol is a key of active_streams, otherwise a new thread
\* and an entry that is not connected yet
StartSymbolStream(streams, threads, symbol) ==
    IF streams[symbol] # NoStream
    THEN [streams |-> streams, threads |-> threads]
    ELSE LET n == Cardinality({k \in StreamThreads : threads[k].state # "unstarted"}) + 1
         IN  [streams |-> [streams EXCEPT ![symbol] = [thread |-> n, connected |-> FALSE]],
              threads |-> [threads EXCEPT ![n] = [symbol |-> symbol, state |-> "running"]]]

\* Whether _start_symbol_stream may run within the bound on threads
CanStart(symbol) ==
    active_streams[symbol] # NoStream \/ Cardinality(StartedThreads) < MaxStreams

\* subscribe_client_to_symbol (65-92): the first subscriber starts the stream
SubscribeClientToSymbol(client, symbol) ==
    /\ client \notin symbol_subscribers[symbol]
    /\ symbol_subscribers' = [symbol_subscribers EXCEPT ![symbol] = @ \cup {client}]
    /\ IF symbol_subscribers[symbol] = {}
       THEN /\ CanStart(symbol)
            /\ LET r == StartSymbolStream(active_streams, stream_threads, symbol)
               IN  /\ active_streams' = r.streams
                   /\ stream_threads' = r.threads
       ELSE UNCHANGED <<active_streams, stream_threads>>
    /\ UNCHANGED <<reconnect_timers, should_reconnect, marketFrame>>

\* unsubscribe_client_from_symbol (94-133): the last subscriber leaving stops
\* the stream, _stop_symbol_stream (204-217) deleting its entry; the thread
\* of the stream closes later, in StreamCloses
UnsubscribeClientFromSymbol(client, symbol) ==
    /\ client \in symbol_subscribers[symbol]
    /\ symbol_subscribers' = [symbol_subscribers EXCEPT ![symbol] = @ \ {client}]
    /\ active_streams' = IF symbol_subscribers[symbol] = {client}
                         THEN [active_streams EXCEPT ![symbol] = NoStream]
                         ELSE active_streams
    /\ UNCHANGED <<stream_threads, reconnect_timers, should_reconnect, marketFrame>>

\* _on_open (262-267), called by the thread n of a stream
StreamOpens(n) ==
    /\ stream_threads[n].state = "running"
    /\ LET symbol == stream_threads[n].symbol
       IN  /\ active_streams[symbol] # NoStream
           /\ ~active_streams[symbol].connected
           /\ active_streams' = [active_streams EXCEPT ![symbol].connected = TRUE]
    /\ UNCHANGED <<symbol_subscribers, stream_threads, reconnect_timers, should_reconnect,
                   marketFrame>>

\* _on_close (249-260), called by the thread n of a stream when its socket
\* closes: the entry of the symbol is marked as not connected and stays in
\* active_streams; with reconnection enabled and a subscriber a Timer for
\* _start_symbol_stream is started
StreamCloses(n) ==
    /\ stream_threads[n].state = "running"
    /\ LET symbol == stream_threads[n].symbol
       IN  /\ stream_threads' = [stream_threads EXCEPT ![n].state = "closed"]
           /\ active_streams' = IF active_streams[symbol] # NoStream
                                THEN [active_streams EXCEPT ![symbol].connected = FALSE]
                                ELSE active_streams
           /\ reconnect_timers' = IF should_reconnect /\ symbol_subscribers[symbol] # {}
                                  THEN reconnect_timers \cup {symbol}
                                  ELSE reconnect_timers
    /\ UNCHANGED <<symbol_subscribers, should_reconnect, marketFrame>>

\* The Timer of _on_close fires after reconnect_delay and calls
\* _start_symbol_stream(symbol) (256-259)
ReconnectTimerFires(symbol) ==
    /\ symbol \in reconnect_timers
    /\ CanStart(symbol)
    /\ reconnect_timers' = reconnect_timers \ {symbol}
    /\ LET r == StartSymbolStream(active_streams, stream_threads, symbol)
       IN  /\ active_streams' = r.streams
           /\ stream_threads' = r.threads
    /\ UNCHANGED <<symbol_subscribers, should_reconnect, marketFrame>>

\* shutdown (286-299): no reconnection any more, every stream stopped, the
\* maps cleared
MarketShutdown ==
    /\ should_reconnect
    /\ should_reconnect' = FALSE
    /\ active_streams' = [sym \in MarketSymbols |-> NoStream]
    /\ symbol_subscribers' = [sym \in MarketSymbols |-> {}]
    /\ UNCHANGED <<stream_threads, reconnect_timers, marketFrame>>

NextMarket ==
    \/ \E client \in MarketClients, symbol \in MarketSymbols :
          SubscribeClientToSymbol(client, symbol)
    \/ \E client \in MarketClients, symbol \in MarketSymbols :
          UnsubscribeClientFromSymbol(client, symbol)
    \/ \E n \in StreamThreads : StreamOpens(n)
    \/ \E n \in StreamThreads : StreamCloses(n)
    \/ \E symbol \in MarketSymbols : ReconnectTimerFires(symbol)
    \/ MarketShutdown

SpecMarket == InitStore /\ [][NextMarket]_vars

-----------------------------------------------------------------------------
notifyFrame == <<pipeVars, userVars, watchVars, listenVars, keepVars, connVars, readVars, view,
                 shutVars, apiVars, marketVars>>

\* user_data_event_processor applies an execution report; it is the only
\* caller of the Store here, so the lock is free.  The notification is
\* {'type': 'order_delta', 'order': existing} (main.py 184-187)
NotifyReport(rep) ==
    /\ LockAvailable
    /\ NoWaiter
    /\ StartCall("processor", [kind |-> "exec", data |-> rep])
    /\ produced' = Append(produced, [orderId |-> rep.orderId, order |-> ExecOrder(rep)])
    /\ UNCHANGED <<note_batch, delivered, notifyFrame>>

\* order_store_broadcaster: msg = await queue.get(); pending.append(msg), for
\* the first notification of a batch and for those that follow within the
\* debounce window (1035-1047)
BatchCollect ==
    /\ bqueue # <<>>
    /\ note_batch' = Append(note_batch, Head(bqueue))
    /\ bqueue' = Tail(bqueue)
    /\ UNCHANGED <<storeVars, lock, pc, arg, nCalls, produced, delivered, notifyFrame>>

\* What send_json serializes for the notifications of a batch: 'order' is the
\* dict of self.orders itself (main.py 165, 186), so each is shown as the
\* order is when the batch is sent
ShownOrders(notes) ==
    [i \in 1..Len(notes) |-> [orderId |-> notes[i].orderId, order |-> orders[notes[i].orderId]]]

\* The window is over: the batch is sent to the subscribers (1049-1066)
BatchFlush ==
    /\ note_batch # <<>>
    /\ delivered' = delivered \o ShownOrders(note_batch)
    /\ note_batch' = <<>>
    /\ UNCHANGED <<storeVars, taskVars, produced, notifyFrame>>

\* The processor applying execution reports and the broadcaster delivering
\* their notifications in batches
NextNotify ==
    \/ \E rep \in Reports : NotifyReport(rep)
    \/ \E t \in Tasks : CompletePut(t)
    \/ BatchCollect
    \/ BatchFlush

SpecNotify == InitStore /\ [][NextNotify]_vars

\* The Store under execution reports and fallback merges, and a reader of its
\* history ring
NextRing ==
    \/ \E rep \in Reports : ApplyExecutionReport(rep)
    \/ \E rest \in BalanceSnapshots : MergeRestOpenOrders(rest)
    \/ \E t \in Tasks : AcquireLock(t)
    \/ \E t \in Tasks : CompletePut(t)
    \/ BroadcasterGet
    \/ \E limit \in SnapshotLimits : SnapshotHistory(limit)

SpecRing == InitStore /\ [][NextRing]_vars

\* The Store under execution reports and fallback merges, with a durable store
\* that may fail
NextFinal ==
    \/ \E rep \in FinalReports : ApplyExecutionReport(rep)
    \/ \E rest \in BalanceSnapshots : MergeRestOpenOrders(rest)
    \/ \E t \in Tasks : AcquireLock(t)
    \/ \E t \in Tasks : CompletePut(t)
    \/ BroadcasterGet

SpecFinal == InitStore /\ [][NextFinal]_vars

-----------------------------------------------------------------------------
\* The orders_history table: crud.upsert_final_order and its paged reader

\* The order ids of the table
RowIds == 1..MaxRows

\* Final orders handed to upsert_final_order: order 1 in several versions (the
\* same update time with another status, a newer one, none), the others in one
FinalOrders ==
    { [orderId |-> 1, symbol |-> SymbolOf(1), status |-> v.status,
       executedQty |-> v.executedQty, avgPrice |-> v.avgPrice,
       cummulativeQuoteQty |-> v.cummulativeQuoteQty, updateTime |-> v.updateTime] :
         v \in { [status |-> "FILLED", executedQty |-> 2, avgPrice |-> 3,
                  cummulativeQuoteQty |-> 6, updateTime |-> 1],
                 [status |-> "CANCELED", executedQty |-> 0, avgPrice |-> 0,
                  cummulativeQuoteQty |-> 0, updateTime |-> 1],
                 [status |-> "FILLED", executedQty |-> 4, avgPrice |-> 2,
                  cummulativeQuoteQty |-> 8, updateTime |-> 2],
                 [status |-> "EXPIRED", executedQty |-> 0, avgPrice |-> 0,
                  cummulativeQuoteQty |-> 0, updateTime |-> 0] } }
    \cup { [orderId |-> o, symbol |-> SymbolOf(o), status |-> "FILLED",
            executedQty |-> 1, avgPrice |-> 1, cummulativeQuoteQty |-> 1,
            updateTime |-> 1] : o \in RowIds \ {1} }

\* The symbol and limit parameters of GET /orders/history ("": no symbol)
PageSymbols == {"", "btcusdt", "ETHUSDT"}
PageLimits == {0, 1, 2}

\* The n largest of a set of order ids, largest first:
\* order_by(order_id.desc()).limit(n)
RECURSIVE TopIds(_, _)
TopIds(ids, n) ==
    IF ids = {} \/ n = 0 THEN <<>>
    ELSE LET m == CHOOSE x \in ids : \A y \in ids : y <= x
         IN  <<m>> \o TopIds(ids \ {m}, n - 1)

\* Mutant of BelowCursor: the row the cursor names is returned again
UpToCursor(o, cursor) ==
    o <= cursor

\* OrdersHistory.order_id < safe_cursor (crud.py 151)
BelowCursor(o, cursor) ==
    o < cursor

\* The rows a query for the symbol selects ("": all)
Matching(table, symbol) ==
    {o \in DOMAIN table : symbol = "" \/ table[o].symbol = Upper(symbol)}

\* crud.get_orders_history_page: the order ids of the page, nextCursor, hasMore
GetOrdersHistoryPage(table, symbol, limit, cursor) ==
    LET lim == IF limit <= 0 THEN DefaultLimit ELSE limit
        selected == {o \in Matching(table, symbol) :
                        cursor = NoCursor \/ BelowCursor(o, cursor)}
        rows == TopIds(selected, lim + 1)
        has_more == Len(rows) > lim
        items == SubSeq(rows, 1, Min(lim, Len(rows)))
    IN  [items |-> items,
         next_cursor |-> IF has_more /\ items # <<>> THEN items[Len(items)] ELSE NoCursor,
         has_more |-> has_more]

dbFrame == <<orders, open_orders, history, balances, oco_lists, taskVars, pipeVars, userVars,
             watchVars, listenVars, keepVars, connVars, snapshot, moreVars>>

\* upsert_final_order(order)
UpsertCall(order) ==
    /\ db' = UpsertFinalOrder(db, order.orderId, order)
    /\ upserted' = [order |-> order, branch |-> UpsertBranch(db, order.orderId, order)]
    /\ UNCHANGED <<pager, dbFrame>>

\* A client asks for the first page
PageFirst(symbol, limit) ==
    /\ pager.state \in {"idle", "done"}
    /\ LET r == GetOrdersHistoryPage(db, symbol, limit, NoCursor)
       IN  pager' = [state |-> IF r.has_more THEN "paging" ELSE "done",
                     symbol |-> symbol, limit |-> limit, cursor |-> r.next_cursor,
                     has_more |-> r.has_more, pages |-> <<r.items>>,
                     table |-> Matching(db, symbol)]
    /\ UNCHANGED <<db, upserted, dbFrame>>

\* The client follows nextCursor
PageNext ==
    /\ pager.state = "paging"
    /\ LET r == GetOrdersHistoryPage(db, pager.symbol, pager.limit, pager.cursor)
       IN  pager' = [pager EXCEPT !.state = IF r.has_more THEN "paging" ELSE "done",
                                  !.cursor = r.next_cursor,
                                  !.has_more = r.has_more,
                                  !.pages = Append(@, r.items)]
    /\ UNCHANGED <<db, upserted, dbFrame>>

NextDb ==
    \/ \E order \in FinalOrders : UpsertCall(order)
    \/ \E symbol \in PageSymbols, limit \in PageLimits : PageFirst(symbol, limit)
    \/ PageNext

SpecDb == InitStore /\ [][NextDb]_vars

-----------------------------------------------------------------------------
\* fallback_user_stream_watchdog, lines 1240-1264: the two REST calls have
\* returned and the snapshot is merged into the Store
WatchdogMerge(fetch) ==
    /\ StartCall("watchdog", [kind |-> "merge", data |-> FetchedSnapshot(fetch)])
    /\ UNCHANGED <<pipeVars, chanVars>>

\* The Store under execution reports, account positions and watchdog fallbacks
\* whose REST calls may fail
NextFallback ==
    \/ \E rep \in Reports : ApplyExecutionReport(rep)
    \/ \E pos \in AccountPositions : ApplyAccountPosition(pos)
    \/ \E fetch \in FallbackFetches : WatchdogMerge(fetch)
    \/ \E t \in Tasks : AcquireLock(t)
    \/ \E t \in Tasks : CompletePut(t)
    \/ BroadcasterGet

SpecFallback == InitStore /\ [][NextFallback]_vars

\* The Store under balance events only
NextBalance ==
    \/ \E pos \in PositionEvents : ApplyAccountPosition(pos)
    \/ \E upd \in BalanceEvents : ApplyBalanceUpdate(upd)
    \/ \E rest \in BalanceSnapshots : MergeRestOpenOrders(rest)
    \/ \E t \in Tasks : AcquireLock(t)
    \/ \E t \in Tasks : CompletePut(t)
    \/ BroadcasterGet

SpecBalance == InitStore /\ [][NextBalance]_vars

SpecStore == InitStore /\ [][NextStore]_vars

-----------------------------------------------------------------------------
\* The pipeline from the user stream to the batch envelopes. The stream messages
\* are numbered in the order the listener reads them; a notification carries the
\* number of the event whose application produced it.

\* What a stream message can be: an execution report (applied to the Store, which
\* enqueues a notification), a JSON object of a type the processor does not
\* handle (queued, then ignored), text that is not JSON (never queued), or an
\* event of a handled type with a field of a shape its handling raises on (an
\* outboundAccountPosition whose B is null, a listStatus whose s is a number)
MessageKinds == {"executionReport", "other", "notjson", "malformed"}

\* The Store is in no call
StoreAtRest ==
    /\ orders = <<>>
    /\ open_orders = {}
    /\ history = <<>>
    /\ balances = <<>>
    /\ oco_lists = <<>>
    /\ db = <<>>
    /\ lock = NoTask
    /\ pc = [t \in Tasks |-> "idle"]
    /\ arg = [t \in Tasks |-> NoOp]
    /\ nCalls = 0

storeFrame == <<storeVars, lock, pc, arg, nCalls, chanVars>>

\* put_nowait raises QueueFull when the queue holds maxsize items
NeverFull(q) == TRUE
HasRoom(q) == Len(q) < MaxEventQueue

\* user_data_stream_listener, one iteration of `async for raw_msg in ws` (897-911):
\* parse, then put_nowait; QueueFull drops the event
ListenerReceive(kind) ==
    /\ received < MaxMessages
    /\ received' = received + 1
    /\ LET evt == [id |-> received + 1, kind |-> kind] IN
       IF kind = "notjson"
       THEN UNCHANGED <<event_queue, accepted, dropped>>
       ELSE IF HasRoom(event_queue)
       THEN /\ event_queue' = Append(event_queue, evt)
            /\ accepted' = Append(accepted, evt)
            /\ dropped' = dropped
       ELSE /\ dropped' = dropped \cup {evt.id}
            /\ UNCHANGED <<event_queue, accepted>>
    /\ UNCHANGED <<ppc, pnote, applied, emitted, bpc, pending, envelopes, winVars, bqueue,
                   storeFrame>>

\* Mutant of NextEvent: the processor takes the newest queued event
NewestEvent(q) ==
    q[Len(q)]

\* evt = await _user_stream_event_queue.get(): the oldest queued event
NextEvent(q) ==
    Head(q)

\* user_data_event_processor, one iteration (930-1005): get an event, dispatch on
\* its type and await the Store method, whose queue put suspends on a full queue.
\* An exception leaves the while loop for the except clause after it (1009-1012)
ProcessorGet ==
    /\ ppc = "get"
    /\ event_queue # <<>>
    /\ event_queue' = Tail(event_queue)
    /\ LET evt == NextEvent(event_queue) IN
       IF evt.kind = "executionReport"
       THEN /\ applied' = Append(applied, evt.id)
            /\ IF Len(bqueue) < MaxBroadcastQueue
               THEN /\ bqueue' = Append(bqueue, evt.id)
                    /\ emitted' = Append(emitted, evt.id)
                    /\ UNCHANGED <<ppc, pnote>>
               ELSE /\ ppc' = "put"
                    /\ pnote' = evt.id
                    /\ UNCHANGED <<bqueue, emitted>>
       ELSE IF evt.kind = "malformed"
       THEN /\ ppc' = "failed"
            /\ UNCHANGED <<applied, bqueue, emitted, pnote>>
       ELSE UNCHANGED <<applied, bqueue, emitted, ppc, pnote>>
    /\ UNCHANGED <<received, accepted, dropped, bpc, pending, envelopes, winVars, storeFrame>>

\* The Store call of the processor, suspended in queue.put, finds room
ProcessorCompletePut ==
    /\ ppc = "put"
    /\ Len(bqueue) < MaxBroadcastQueue
    /\ bqueue' = Append(bqueue, pnote)
    /\ emitted' = Append(emitted, pnote)
    /\ ppc' = "get"
    /\ pnote' = 0
    /\ UNCHANGED <<received, event_queue, accepted, dropped, applied, bpc, pending,
                   envelopes, winVars, storeFrame>>

\* Mutant of Collect: a later notification is put in front of the batch
CollectInFront(batch, msg) ==
    <<msg>> \o batch

\* pending.append(msg)
Collect(batch, msg) ==
    Append(batch, msg)

\* The debounce window of order_store_broadcaster(debounce_ms=50), and the steps
\* by which the clock advances
DebounceMs == 50
TimeSteps == {10, 25}

\* order_store_broadcaster: msg = await queue.get(); pending.append(msg);
\* window_start = loop.time() (1035-1037)
BroadcasterFirst ==
    /\ bpc = "first"
    /\ bqueue # <<>>
    /\ pending' = Collect(pending, Head(bqueue))
    /\ bqueue' = Tail(bqueue)
    /\ bpc' = "window"
    /\ window_elapsed' = 0
    /\ batch_age' = 0
    /\ UNCHANGED <<received, event_queue, accepted, dropped, ppc, pnote, applied, emitted,
                   envelopes, storeFrame>>

\* Time passes while the broadcaster waits in wait_for(queue.get(), timeout):
\* the timeout ends the wait when the window is over
Elapse(d) ==
    /\ bpc = "window"
    /\ window_elapsed < DebounceMs
    /\ window_elapsed' = Min(window_elapsed + d, DebounceMs)
    /\ batch_age' = batch_age + (Min(window_elapsed + d, DebounceMs) - window_elapsed)
    /\ UNCHANGED <<received, event_queue, accepted, dropped, ppc, pnote, applied, emitted,
                   bpc, pending, envelopes, bqueue, storeFrame>>

\* A further notification leaves window_start as it is
WindowRestarts(e) == 0
WindowAfterMore(e) == e

\* order_store_broadcaster: a further get succeeds inside the window (1040-1045)
BroadcasterMore ==
    /\ bpc = "window"
    /\ window_elapsed < DebounceMs
    /\ bqueue # <<>>
    /\ pending' = Collect(pending, Head(bqueue))
    /\ bqueue' = Tail(bqueue)
    /\ window_elapsed' = WindowAfterMore(window_elapsed)
    /\ UNCHANGED <<received, event_queue, accepted, dropped, ppc, pnote, applied, emitted,
                   bpc, envelopes, batch_age, storeFrame>>

\* The envelope built from a batch (1056-1063); ts and lastEventAgeMs are left out
Envelope(batch) ==
    [type |-> "order_store_batch", events |-> batch, batchSize |-> Len(batch)]

\* order_store_broadcaster: the window is over (timeout <= 0 or TimeoutError); the
\* batch is flushed as one envelope and broadcast (1041-1068)
BroadcasterFlush ==
    /\ bpc = "window"
    /\ window_elapsed >= DebounceMs
    /\ envelopes' = Append(envelopes, Envelope(pending))
    /\ pending' = <<>>
    /\ bpc' = "first"
    /\ window_elapsed' = 0
    /\ batch_age' = 0
    /\ UNCHANGED <<received, event_queue, accepted, dropped, ppc, pnote, applied, emitted,
                   bqueue, storeFrame>>

InitPipe ==
    /\ StoreAtRest
    /\ UserAtRest
    /\ WatchdogAtRest
    /\ ListenerAtRest
    /\ PipeAtRest
    /\ bqueue = <<>>

NextPipe ==
    \/ \E d \in TimeSteps : Elapse(d)
    \/ \E kind \in MessageKinds : ListenerReceive(kind)
    \/ ProcessorGet
    \/ ProcessorCompletePut
    \/ BroadcasterFirst
    \/ BroadcasterMore
    \/ BroadcasterFlush

SpecPipe == InitPipe /\ [][NextPipe]_vars

-----------------------------------------------------------------------------
\* The /ws/user channel.  A send_json call hands its message to the socket when
\* it is called and may suspend afterwards, so the messages of one connection
\* arrive in the order of the calls; every await of the handler (the accept, the
\* Store snapshot reads, the sends) is a point where the other tasks may run.

\* The requests a client may send on the channel
ClientRequests == {"ping", "resnapshot", "pong"}

\* The first message each broadcasting task sends
FirstMsg(t) ==
    CASE t = "broadcaster" -> Msg("order_store_batch")
      [] t = "heartbeat" -> Msg("user_heartbeat")
      [] t = "watchdog" -> Msg("system")

\* websocket.send_json on connection c: delivered unless the socket is closed
Deliver(ib, c, msg) == [ib EXCEPT ![c] = Append(@, msg)]

RECURSIVE RemoveAll(_, _)
RemoveAll(list, gone) ==
    IF gone = <<>> THEN list
    ELSE RemoveAll(SelectSeq(list, LAMBDA x : x # Head(gone)), Tail(gone))

\* ConnectionManager.disconnect_user
DisconnectUser(list, c) == RemoveAll(list, <<c>>)

\* ConnectionManager._cleanup_heartbeat for each of the connections gone: the
\* entry is popped and its task, if still running, cancelled
CleanupHeartbeat(tasks, gone) ==
    [c \in DOMAIN tasks |-> IF c \in gone THEN "absent" ELSE tasks[c]]

\* The connections of a list
Members(list) == {list[i] : i \in 1..Len(list)}

otherFrame == <<storeVars, taskVars, pipeVars, watchVars, listenVars, keepVars, connVars,
                readVars, moreVars>>

\* connect_user once the accept has completed: the connection is registered
HandlerConnect(c) ==
    /\ hpc[c] = "new"
    /\ user_connections' = Append(user_connections, c)
    /\ hpc' = [hpc EXCEPT ![c] = "registered"]
    /\ heartbeat_tasks' = [heartbeat_tasks EXCEPT ![c] = "running"]
    /\ UNCHANGED <<wsOpen, inbox, iter, nUserOps, otherFrame>>

\* The open orders and balances are read from the Store, then welcome is sent;
\* a failed send ends the handler through its finally clause
HandlerWelcome(c) ==
    /\ hpc[c] = "registered"
    /\ IF wsOpen[c]
         THEN /\ inbox' = Deliver(inbox, c, Msg("welcome"))
              /\ hpc' = [hpc EXCEPT ![c] = "welcomed"]
              /\ UNCHANGED <<user_connections, heartbeat_tasks>>
         ELSE /\ user_connections' = DisconnectUser(user_connections, c)
              /\ heartbeat_tasks' = CleanupHeartbeat(heartbeat_tasks, {c})
              /\ hpc' = [hpc EXCEPT ![c] = "done"]
              /\ UNCHANGED inbox
    /\ UNCHANGED <<wsOpen, iter, nUserOps, otherFrame>>

\* The history is read from the Store, then the full orders_snapshot is sent
HandlerSnapshot(c) ==
    /\ hpc[c] = "welcomed"
    /\ IF wsOpen[c]
         THEN /\ inbox' = Deliver(inbox, c, Msg("orders_snapshot"))
              /\ hpc' = [hpc EXCEPT ![c] = "active"]
              /\ UNCHANGED <<user_connections, heartbeat_tasks>>
         ELSE /\ user_connections' = DisconnectUser(user_connections, c)
              /\ heartbeat_tasks' = CleanupHeartbeat(heartbeat_tasks, {c})
              /\ hpc' = [hpc EXCEPT ![c] = "done"]
              /\ UNCHANGED inbox
    /\ UNCHANGED <<wsOpen, iter, nUserOps, otherFrame>>

\* The receive loop: ping is answered with pong, resnapshot with a snapshot
HandlerRequest(c, mtype) ==
    /\ hpc[c] = "active"
    /\ wsOpen[c]
    /\ nUserOps < MaxUserOps
    /\ nUserOps' = nUserOps + 1
    /\ inbox' = CASE mtype = "ping" -> Deliver(inbox, c, Msg("pong"))
                  [] mtype = "resnapshot" -> Deliver(inbox, c, Msg("orders_snapshot"))
                  [] OTHER -> inbox
    /\ UNCHANGED <<user_connections, hpc, wsOpen, iter, heartbeat_tasks, otherFrame>>

\* The peer closes the socket
ClientClose(c) ==
    /\ hpc[c] \in {"registered", "welcomed", "active"}
    /\ wsOpen[c]
    /\ wsOpen' = [wsOpen EXCEPT ![c] = FALSE]
    /\ UNCHANGED <<user_connections, hpc, inbox, iter, nUserOps, heartbeat_tasks, otherFrame>>

\* receive_json raises WebSocketDisconnect: the finally clause unregisters
HandlerExit(c) ==
    /\ hpc[c] = "active"
    /\ ~wsOpen[c]
    /\ user_connections' = DisconnectUser(user_connections, c)
    /\ heartbeat_tasks' = CleanupHeartbeat(heartbeat_tasks, {c})
    /\ hpc' = [hpc EXCEPT ![c] = "done"]
    /\ UNCHANGED <<wsOpen, inbox, iter, nUserOps, otherFrame>>

\* broadcast_to_user up to its first await: nothing for an empty list, else the
\* send to the first connection of the list
StartIter(list, ib, msg) ==
    IF list = <<>> THEN [iter |-> NoIter, inbox |-> ib]
    ELSE LET all == {list[i] : i \in 1..Len(list)} IN
         IF wsOpen[list[1]]
           THEN [iter |-> [msg |-> msg, idx |-> 2, failed |-> <<>>,
                           targets |-> all, got |-> {list[1]}],
                 inbox |-> Deliver(ib, list[1], msg)]
           ELSE [iter |-> [msg |-> msg, idx |-> 2, failed |-> <<list[1]>>,
                           targets |-> all, got |-> {}],
                 inbox |-> ib]

\* A broadcasting task has a message and finds user connections
BroadcastBegin(t) ==
    /\ iter[t] = NoIter
    /\ nUserOps < MaxUserOps
    /\ user_connections # <<>>
    /\ LET r == StartIter(user_connections, inbox, FirstMsg(t))
       IN /\ iter' = [iter EXCEPT ![t] = r.iter]
          /\ inbox' = r.inbox
    /\ nUserOps' = nUserOps + 1
    /\ UNCHANGED <<user_connections, hpc, wsOpen, heartbeat_tasks, otherFrame>>

\* The loop of broadcast_to_user resumes after a send: the next connection of
\* the list as it is now
BroadcastNext(t) ==
    /\ iter[t] # NoIter
    /\ iter[t].idx <= Len(user_connections)
    /\ LET c == user_connections[iter[t].idx]
       IN IF wsOpen[c]
            THEN /\ inbox' = Deliver(inbox, c, iter[t].msg)
                 /\ iter' = [iter EXCEPT ![t].idx = @ + 1, ![t].got = @ \cup {c}]
            ELSE /\ iter' = [iter EXCEPT ![t].idx = @ + 1, ![t].failed = Append(@, c)]
                 /\ UNCHANGED inbox
    /\ UNCHANGED <<user_connections, hpc, wsOpen, nUserOps, heartbeat_tasks, otherFrame>>

\* The loop is over: the connections whose send failed are unregistered; the
\* watchdog follows its warning with the fallback snapshot
BroadcastEnd(t) ==
    /\ iter[t] # NoIter
    /\ iter[t].idx > Len(user_connections)
    /\ LET list == RemoveAll(user_connections, iter[t].failed)
           r == IF t = "watchdog" /\ iter[t].msg = Msg("system")
                  THEN StartIter(list, inbox, FallbackSnapshot)
                  ELSE [iter |-> NoIter, inbox |-> inbox]
       IN /\ user_connections' = list
          /\ heartbeat_tasks' = CleanupHeartbeat(heartbeat_tasks, Members(iter[t].failed))
          /\ iter' = [iter EXCEPT ![t] = r.iter]
          /\ inbox' = r.inbox
    /\ UNCHANGED <<hpc, wsOpen, nUserOps, otherFrame>>

\* _heartbeat_loop wakes from its sleep and its ping is sent
HeartbeatPing(c) ==
    /\ heartbeat_tasks[c] = "running"
    /\ wsOpen[c]
    /\ nUserOps < MaxUserOps
    /\ nUserOps' = nUserOps + 1
    /\ inbox' = Deliver(inbox, c, Msg("ping"))
    /\ UNCHANGED <<user_connections, hpc, wsOpen, iter, heartbeat_tasks, otherFrame>>

\* _heartbeat_loop wakes from its sleep and its ping cannot be sent: the
\* exception is logged and the loop left
HeartbeatFail(c) ==
    /\ heartbeat_tasks[c] = "running"
    /\ ~wsOpen[c]
    /\ heartbeat_tasks' = [heartbeat_tasks EXCEPT ![c] = "ended"]
    /\ UNCHANGED <<user_connections, hpc, wsOpen, inbox, iter, nUserOps, otherFrame>>

InitUser ==
    /\ StoreAtRest
    /\ WatchdogAtRest
    /\ ListenerAtRest
    /\ PipeAtRest
    /\ bqueue = <<>>
    /\ UserAtRest

NextUser ==
    \/ \E c \in Conns : HandlerConnect(c)
    \/ \E c \in Conns : HandlerWelcome(c)
    \/ \E c \in Conns : HandlerSnapshot(c)
    \/ \E c \in Conns, mtype \in ClientRequests : HandlerRequest(c, mtype)
    \/ \E c \in Conns : ClientClose(c)
    \/ \E c \in Conns : HandlerExit(c)
    \/ \E t \in Senders : BroadcastBegin(t)
    \/ \E t \in Senders : BroadcastNext(t)
    \/ \E t \in Senders : BroadcastEnd(t)
    \/ \E c \in Conns : HeartbeatPing(c)
    \/ \E c \in Conns : HeartbeatFail(c)

SpecUser == InitUser /\ [][NextUser]_vars

-----------------------------------------------------------------------------
\* The stale-stream watchdog.  The clock advances in seconds; a poll runs once
\* its sleep(check_interval) is over, possibly late.  The Store is idle here, so
\* the merge of a fallback runs at once under the free lock.

watchFrame == <<taskVars, pipeVars, hpc, wsOpen, inbox, iter, nUserOps, listenVars, keepVars,
                connVars, readVars, moreVars>>

\* The clock advances
Tick ==
    /\ now < MaxTime
    /\ now' = now + 1
    /\ UNCHANGED <<last_event_time, last_fallback_ts, wakeAt, episode>>
    /\ UNCHANGED <<storeVars, user_connections, heartbeat_tasks, watchFrame>>

\* user_data_event_processor takes a dict event: the last-event time is set
ProcessorTouch ==
    /\ last_event_time' = now
    /\ episode' = <<>>
    /\ UNCHANGED <<now, last_fallback_ts, wakeAt>>
    /\ UNCHANGED <<storeVars, user_connections, heartbeat_tasks, watchFrame>>

\* A subscriber connects to the user channel or leaves it
SubscriberConnect(c) ==
    /\ c \notin {user_connections[i] : i \in 1..Len(user_connections)}
    /\ user_connections' = Append(user_connections, c)
    /\ heartbeat_tasks' = [heartbeat_tasks EXCEPT ![c] = "running"]
    /\ UNCHANGED <<watchVars, storeVars, watchFrame>>

SubscriberDisconnect(c) ==
    /\ c \in {user_connections[i] : i \in 1..Len(user_connections)}
    /\ user_connections' = DisconnectUser(user_connections, c)
    /\ heartbeat_tasks' = CleanupHeartbeat(heartbeat_tasks, {c})
    /\ UNCHANGED <<watchVars, storeVars, watchFrame>>

\* Mutant of Stale: the fallback already runs at the threshold
StaleAtThreshold(t) ==
    last_event_time # NoTime /\ t - last_event_time >= StaleAfter

\* if _user_stream_last_event_time is None: continue / age > stale_after
\* (main.py 1226-1229)
Stale(t) == last_event_time # NoTime /\ t - last_event_time > StaleAfter

\* if last_fallback_ts and (now - last_fallback_ts) < stale_after: continue
DebounceOff(t) == FALSE
Debounced(t) ==
    /\ last_fallback_ts # NoTime
    /\ last_fallback_ts # 0
    /\ t - last_fallback_ts < StaleAfter

WatchdogMsg(type, fallback) == [type |-> type, fallback |-> fallback, ts |-> now]

\* A poll that finds no event yet, a fresh stream or a recent fallback
WatchdogPoll ==
    /\ now >= wakeAt
    /\ ~Stale(now) \/ Debounced(now)
    /\ wakeAt' = now + CheckInterval
    /\ UNCHANGED <<now, last_event_time, last_fallback_ts, episode>>
    /\ UNCHANGED <<storeVars, user_connections, heartbeat_tasks, watchFrame>>

\* A poll that runs the fallback: REST snapshot, merge into the Store, then the
\* warning and the fallback snapshot to the user channel if it has connections
WatchdogFallback(rest) ==
    /\ now >= wakeAt
    /\ Stale(now)
    /\ ~Debounced(now)
    /\ last_fallback_ts' = now
    /\ LET r == MergeRestOpenOrdersBody(rest)
       IN /\ orders' = r.orders
          /\ open_orders' = r.open
          /\ balances' = r.balances
    /\ episode' = IF user_connections # <<>>
                  THEN episode \o <<WatchdogMsg("system", FALSE),
                                    WatchdogMsg("orders_snapshot", TRUE)>>
                  ELSE episode
    /\ wakeAt' = now + CheckInterval
    /\ UNCHANGED <<now, last_event_time, history, oco_lists, db>>
    /\ UNCHANGED <<user_connections, heartbeat_tasks, watchFrame>>

InitWatchdog ==
    /\ StoreAtRest
    /\ PipeAtRest
    /\ bqueue = <<>>
    /\ UserAtRest
    /\ ListenerAtRest
    /\ WatchdogAtRest

NextWatchdog ==
    \/ Tick
    \/ ProcessorTouch
    \/ \E c \in Conns : SubscriberConnect(c)
    \/ \E c \in Conns : SubscriberDisconnect(c)
    \/ WatchdogPoll
    \/ \E rest \in RestSnapshots : WatchdogFallback(rest)

SpecWatchdog == InitWatchdog /\ [][NextWatchdog]_vars

-----------------------------------------------------------------------------
\* The user-stream listener.  Its positions are its awaits: "acquiring" (the
\* REST call of _start_user_stream), "sleeping", "connecting" (websockets.connect)
\* and "connected" (the async for over the socket); "start" is the top of the
\* loop on entry and "stopped" the end of the task.

listenFrame == <<storeVars, taskVars, pipeVars, userVars, watchVars, connVars, readVars,
                 moreVars>>

\* The top of the while loop: without a key a new one is requested, with a key
\* the connection to /ws/<key> is opened
LoopTop(key) ==
    IF key = NoKey
    THEN /\ lpc' = "acquiring"
         /\ connKey' = connKey
    ELSE /\ lpc' = "connecting"
         /\ connKey' = key

\* except Exception: the error is counted, the key dropped, the delay doubled
\* up to the cap, and the listener sleeps
ErrorPath ==
    /\ connection_errors' = Min(connection_errors + 1, MaxErrors)
    /\ listen_key' = NoKey
    /\ reconnect_delay' = Min(reconnect_delay * 2, ReconnectDelayCap)
    /\ lpc' = "sleeping"
    /\ UNCHANGED <<connKey, nKeys, keepVars>>

\* _start_user_stream counts a forced restart of a held key before its REST call
CountRestart(key) == IF key # NoKey THEN Min(restarts + 1, MaxErrors) ELSE restarts

\* The end of a successful _start_user_stream: the keepalive time is set and the
\* keepalive task is created if it is not running
StreamStarted ==
    /\ last_keepalive' = "fresh"
    /\ kpc' = IF kpc = "absent" THEN "sleeping" ELSE kpc
    /\ UNCHANGED <<kKey, keepalive_errors, klog>>

\* lifespan: _start_user_stream() at startup.  With a key the listener (and
\* processor) task is created; when the call raises, the exception is logged
\* and no listener task is created
LifespanStart(ok) ==
    /\ lpc = "boot"
    /\ IF ok
       THEN /\ nKeys' = nKeys + 1
            /\ listen_key' = nKeys + 1
            /\ lpc' = "start"
            /\ StreamStarted
       ELSE /\ lpc' = "notcreated"
            /\ UNCHANGED <<listen_key, nKeys, kpc, kKey, last_keepalive, keepalive_errors, klog>>
    /\ UNCHANGED <<connKey, reconnect_delay, connection_errors, restarts, listenFrame>>

\* POST /user-stream/start: _start_user_stream(force=True) replaces the key;
\* the endpoint creates no listener task
UserStreamStart ==
    /\ lpc # "boot"
    /\ nKeys < MaxKeys
    /\ nKeys' = nKeys + 1
    /\ listen_key' = nKeys + 1
    /\ restarts' = CountRestart(listen_key)
    /\ StreamStarted
    /\ UNCHANGED <<lpc, connKey, reconnect_delay, connection_errors, listenFrame>>

\* The listener task starts running
ListenerStart ==
    /\ lpc = "start"
    /\ LoopTop(listen_key)
    /\ UNCHANGED <<listen_key, reconnect_delay, nKeys, connection_errors, keepVars, listenFrame>>

\* _start_user_stream(force=True) returns a new key, or raises
ListenerAcquire(ok) ==
    /\ lpc = "acquiring"
    /\ IF ok
       THEN /\ nKeys < MaxKeys
            /\ nKeys' = nKeys + 1
            /\ listen_key' = nKeys + 1
            /\ lpc' = "connecting"
            /\ connKey' = nKeys + 1
            /\ StreamStarted
            /\ UNCHANGED <<reconnect_delay, connection_errors>>
       ELSE /\ connection_errors' = Min(connection_errors + 1, MaxErrors)
            /\ lpc' = "sleeping"
            /\ UNCHANGED <<listen_key, connKey, reconnect_delay, nKeys>>
            /\ UNCHANGED <<kpc, kKey, last_keepalive, keepalive_errors, klog>>
    /\ UNCHANGED <<restarts, listenFrame>>

\* asyncio.sleep(reconnect_delay) is over: back to the top of the loop
ListenerWake ==
    /\ lpc = "sleeping"
    /\ LoopTop(listen_key)
    /\ UNCHANGED <<listen_key, reconnect_delay, nKeys, connection_errors, keepVars, listenFrame>>

\* websockets.connect succeeds (the backoff is reset) or raises
ListenerConnect(ok) ==
    /\ lpc = "connecting"
    /\ IF ok
       THEN /\ lpc' = "connected"
            /\ reconnect_delay' = ReconnectDelayInit
            /\ UNCHANGED <<listen_key, connKey, nKeys, connection_errors, keepVars>>
       ELSE ErrorPath
    /\ UNCHANGED listenFrame

\* Reading from the socket raises (connection lost, protocol error)
StreamError ==
    /\ lpc = "connected"
    /\ ErrorPath
    /\ UNCHANGED listenFrame

\* The peer closes the stream cleanly: the async for ends without an exception
\* and the loop starts over
StreamCleanClose ==
    /\ lpc = "connected"
    /\ LoopTop(listen_key)
    /\ UNCHANGED <<listen_key, reconnect_delay, nKeys, connection_errors, keepVars, listenFrame>>

\* The task is cancelled at one of its awaits
ListenerCancel ==
    /\ lpc \in {"acquiring", "sleeping", "connecting", "connected"}
    /\ lpc' = "stopped"
    /\ UNCHANGED <<listen_key, connKey, reconnect_delay, nKeys, connection_errors, keepVars, listenFrame>>

\* The keepalive interval passes since the last successful keepalive or start
KeepaliveAge ==
    /\ last_keepalive = "fresh"
    /\ last_keepalive' = "aged"
    /\ UNCHANGED <<kpc, kKey, keepalive_errors, restarts, klog, listenVars, listenFrame>>

\* The keepalive loop wakes with a key held and the keepalive due: the keepalive
\* call for the held key is sent
KeepaliveSend ==
    /\ kpc = "sleeping"
    /\ listen_key # NoKey
    /\ last_keepalive # "fresh"
    /\ Len(SelectSeq(klog, LAMBDA c : c.call = "keepalive")) < MaxKeepalives
    /\ kpc' = "sending"
    /\ kKey' = listen_key
    /\ UNCHANGED <<last_keepalive, keepalive_errors, restarts, klog, listenVars, listenFrame>>

\* What the loop does when the keepalive call returns False: a forced restart
RetryOnly == FALSE
RestartsOnFailure == TRUE

\* The keepalive call returns.  True: the keepalive time is set.  False (the
\* client wrapper turns every exception into False): both counters are
\* incremented and _start_user_stream(force=True) requests a new key
KeepaliveResult(ok) ==
    /\ kpc = "sending"
    /\ klog' = Append(klog, [call |-> "keepalive", key |-> kKey, ok |-> ok])
    /\ IF ok
       THEN /\ last_keepalive' = "fresh"
            /\ kpc' = "sleeping"
            /\ UNCHANGED <<keepalive_errors, restarts>>
       ELSE /\ keepalive_errors' = keepalive_errors + 1
            /\ IF RestartsOnFailure
               THEN /\ restarts' = CountRestart(listen_key) + 1
                    /\ kpc' = "restarting"
               ELSE /\ kpc' = "sleeping"
                    /\ UNCHANGED restarts
            /\ UNCHANGED last_keepalive
    /\ UNCHANGED <<kKey, listenVars, listenFrame>>

\* The restart requested by the keepalive loop returns a new key, or raises
\* (counted as another keepalive error)
KeepaliveRestart(ok) ==
    /\ kpc = "restarting"
    /\ klog' = Append(klog, [call |-> "start", key |-> NoKey, ok |-> ok])
    /\ kpc' = "sleeping"
    /\ IF ok
       THEN /\ nKeys < MaxKeys
            /\ nKeys' = nKeys + 1
            /\ listen_key' = nKeys + 1
            /\ last_keepalive' = "fresh"
            /\ UNCHANGED keepalive_errors
       ELSE /\ keepalive_errors' = keepalive_errors + 1
            /\ UNCHANGED <<nKeys, listen_key, last_keepalive>>
    /\ UNCHANGED <<kKey, restarts, lpc, connKey, reconnect_delay, connection_errors, listenFrame>>

InitListener ==
    /\ StoreAtRest
    /\ PipeAtRest
    /\ bqueue = <<>>
    /\ UserAtRest
    /\ WatchdogAtRest
    /\ ListenerAtRest

NextListener ==
    \/ \E ok \in BOOLEAN : LifespanStart(ok)
    \/ UserStreamStart
    \/ ListenerStart
    \/ \E ok \in BOOLEAN : ListenerAcquire(ok)
    \/ ListenerWake
    \/ \E ok \in BOOLEAN : ListenerConnect(ok)
    \/ StreamError
    \/ StreamCleanClose
    \/ ListenerCancel
    \/ KeepaliveAge
    \/ KeepaliveSend
    \/ \E ok \in BOOLEAN : KeepaliveResult(ok)
    \/ \E ok \in BOOLEAN : KeepaliveRestart(ok)

SpecListener == InitListener /\ [][NextListener]_vars

-----------------------------------------------------------------------------
\* Properties of the Store (SpecStore)

\* The step in which the body of the Store call op runs: the call itself when the
\* lock is free, or the later acquisition of the lock by the waiting caller
BodyStep(op) ==
    \E t \in Tasks :
        \/ pc[t] = "idle" /\ LockAvailable /\ NoWaiter /\ StartCall(t, op)
        \/ pc[t] = "lock" /\ arg[t].kind = op.kind /\ arg[t].data = op.data /\ AcquireLock(t)

ExecStep(rep) == BodyStep([kind |-> "exec", data |-> rep])
MergeStep(rest) == BodyStep([kind |-> "merge", data |-> rest])

\* C1: applying an execution report whose timestamp is not newer than the order's
\* last-recorded update timestamp (a redelivery) leaves the order record, the open
\* set and the history ring exactly as they were.
C1_RedeliveryIsNoOp ==
    [][\A rep \in Reports :
          ( /\ ExecStep(rep)
            /\ rep.orderId \in DOMAIN orders
            /\ orders[rep.orderId].updateTime >= rep.eventTime )
          => UNCHANGED <<orders, open_orders, history>>]_vars

\* C2: the history ring gains an entry for an order only at the step where the
\* order's status changes from non-terminal to terminal; a report with a terminal
\* status for an order that is already terminal appends nothing.
C2_HistoryOnlyOnTerminalTransition ==
    [][\A rep \in Reports :
          ( /\ ExecStep(rep)
            /\ rep.orderId \in DOMAIN orders
            /\ orders[rep.orderId].status \in FinalStatuses )
          => history' = history]_vars

\* C3: every order id in the open set is a key of the orders map and the status
\* recorded for it is NEW or PARTIALLY_FILLED.
C3_OpenSetInvariant ==
    \A o \in open_orders :
        /\ o \in DOMAIN orders
        /\ orders[o].status \in OpenStatuses

\* C4: after merge_rest_open_orders(R, _) the open set is exactly the set of order
\* ids of R, every order known before is still known, and every id of R unknown
\* before is a placeholder with empty fills, with status NEW when R gives none.
C4_ReconciliationSafety ==
    [][\A rest \in RestSnapshots :
          MergeStep(rest) =>
              LET ids == rest.ids \ {NoOrderId} IN
              /\ open_orders' = ids
              /\ DOMAIN orders \subseteq DOMAIN orders'
              /\ \A o \in ids \ DOMAIN orders :
                     /\ o \in DOMAIN orders'
                     /\ orders'[o].fills = <<>>
                     /\ (rest.status = "None" => orders'[o].status = "NEW")]_vars

\* C4 witness: a merge has dropped a still-unfinished order from the open set
\* (it stays known) and has created a placeholder for an id only REST knew.
C4_Witness ==
    /\ \E a \in DOMAIN orders \ open_orders : orders[a].status \in OpenStatuses
    /\ \E c \in open_orders :
           /\ c \in DOMAIN orders
           /\ orders[c].updateTime = 0
           /\ orders[c].status = "NEW"

\* C5: Store mutation is serialized: Store state is written only by a task that
\* has just obtained the free lock, the lock never passes to another task while
\* it is held, and the only task suspended inside a method is the lock holder.
C5_Serialized ==
    [][/\ (storeVars' # storeVars => lock = NoTask)
       /\ (lock # NoTask /\ lock' # NoTask => lock' = lock)
       /\ \A t \in Tasks : (pc'[t] = "put" => lock' = t)]_vars

\* C5 witness: one caller is suspended in the queue put inside its method while
\* another caller is waiting for the lock.
C5_Witness ==
    /\ pc["processor"] = "put"
    /\ lock = "processor"
    /\ pc["watchdog"] = "lock"

-----------------------------------------------------------------------------
\* Properties of the pipeline (SpecPipe)

IsReport(evt) == evt.kind = "executionReport"

\* The message numbers of a sequence of events
Ids(events) == [i \in 1..Len(events) |-> events[i].id]

\* The events lists of a sequence of envelopes, concatenated
RECURSIVE Flatten(_)
Flatten(envs) ==
    IF envs = <<>> THEN <<>> ELSE Head(envs).events \o Flatten(Tail(envs))

\* C6: the events accepted into the raw-event queue are applied to the Store in
\* exactly the order the listener received them: what has been applied, followed
\* by what is still queued, is the accepted sequence, which is in reading order.
C6_AppliedInReceivedOrder ==
    /\ applied \o Ids(SelectSeq(event_queue, IsReport)) = Ids(SelectSeq(accepted, IsReport))
    /\ \A i, j \in 1..Len(applied) : i < j => applied[i] < applied[j]
    /\ \A i \in 1..Len(applied) : applied[i] \notin dropped

\* C6 witness: an event was dropped on the full queue, and events read before it
\* and after it have been applied.
C6_Witness ==
    \E d \in dropped :
        /\ \E i \in 1..Len(applied) : applied[i] < d
        /\ \E i \in 1..Len(applied) : applied[i] > d

\* C7: the events lists of the successive envelopes, followed by the batch being
\* collected and the notifications still queued, are the notifications in the
\* order the Store enqueued them, each once; every batchSize is the length of
\* its events list.
C7_BroadcastInEmissionOrder ==
    /\ Flatten(envelopes) \o pending \o bqueue = emitted
    /\ \A i, j \in 1..Len(emitted) : i # j => emitted[i] # emitted[j]
    /\ \A i \in 1..Len(envelopes) : envelopes[i].batchSize = Len(envelopes[i].events)

\* C7 witness: two envelopes have been flushed, one of them a batch of several
\* notifications.
C7_Witness ==
    /\ Len(envelopes) >= 2
    /\ \E i \in 1..Len(envelopes) : envelopes[i].batchSize >= 2

-----------------------------------------------------------------------------
\* Properties of the user channel (SpecUser)

\* C8: on every user connection the first message is welcome and the second is
\* the full orders_snapshot, so no order_store_batch, heartbeat, system warning
\* or fallback snapshot reaches the subscriber before the initial snapshot.
C8_InitialMessagesFirst ==
    \A c \in Conns :
        /\ (Len(inbox[c]) >= 1 => inbox[c][1] = Msg("welcome"))
        /\ (Len(inbox[c]) >= 2 => inbox[c][2] = Msg("orders_snapshot"))

-----------------------------------------------------------------------------
\* Properties of the watchdog (SpecWatchdog)

IsWarn(m) == m.type = "system"
IsFallback(m) == m.type = "orders_snapshot" /\ m.fallback

FallbackRan ==
    \/ last_fallback_ts' # last_fallback_ts
    \/ <<orders, open_orders, balances>>' # <<orders, open_orders, balances>>
    \/ Len(episode') > Len(episode)

-----------------------------------------------------------------------------
\* Properties of the listener (SpecListener)

\* C10: whenever the listener leaves the connected state without being
\* cancelled, by an error or by a clean close of the peer, the held listen key
\* is discarded.
C10_TokenDiscardedOnLeave ==
    [][lpc = "connected" /\ lpc' \notin {"connected", "stopped"}
          => listen_key' = NoKey]_vars


\* C11: a failure to obtain the listen key, at application startup or inside
\* the listener loop, never leaves the system without a running listener: the
\* listener task exists from startup on and ends only when it is cancelled.
C11_ListenerSurvivesTokenFailure ==
    lpc # "notcreated"


IsFailedKeepalive(c) == c.call = "keepalive" /\ ~c.ok

\* C12: every keepalive call that fails is counted in the keepalive error
\* counter and is followed at once by a request for a new listen key: the next
\* gateway call of the keepalive loop after a failed keepalive is the restart,
\* never another keepalive.
C12_FailedKeepaliveRestarts ==
    /\ keepalive_errors >= Len(SelectSeq(klog, IsFailedKeepalive))
    /\ \A i \in 1..Len(klog) :
          IsFailedKeepalive(klog[i]) =>
              IF i < Len(klog) THEN klog[i + 1].call = "start"
              ELSE kpc = "restarting"

\* C12 witness: a keepalive failed, the restart that followed returned a new
\* key, and the next keepalive was sent for a key other than the failed one.
C12_Witness ==
    \E i \in 1..Len(klog) :
        /\ IsFailedKeepalive(klog[i])
        /\ i + 2 <= Len(klog)
        /\ klog[i + 1] = [call |-> "start", key |-> NoKey, ok |-> TRUE]
        /\ klog[i + 2].call = "keepalive"
        /\ klog[i + 2].key # klog[i].key

\* C34: replacement of the listen key is serialized: the listener and the
\* keepalive loop never both have a start-session request in flight.
C34_SingleStartInFlight ==
    ~(lpc = "acquiring" /\ kpc = "restarting")

\* C35: while the listener is connected, the key of the stream it reads is the
\* listen key currently held.
C35_ListenerReadsCurrentSession ==
    lpc = "connected" => connKey = listen_key

\* C36: the retry delay of the listener stays between the floor and the
\* ceiling, every failed attempt (no key obtained, connection refused, read
\* error) doubles it up to the ceiling, and a successful connection resets it
\* to the floor.
C36_BackoffPolicy ==
    [][/\ reconnect_delay' >= ReconnectDelayInit
       /\ reconnect_delay' <= ReconnectDelayCap
       /\ (lpc \in {"acquiring", "connecting", "connected"} /\ lpc' = "sleeping")
             => reconnect_delay' = Min(reconnect_delay * 2, ReconnectDelayCap)
       /\ (lpc = "connecting" /\ lpc' = "connected")
             => reconnect_delay' = ReconnectDelayInit]_vars

-----------------------------------------------------------------------------
\* Further properties of the pipeline (SpecPipe)

\* C13: no event stops the processor: an event whose application raises is
\* dropped and the processor goes on with the events queued after it.
C13_ProcessorSurvivesEvents ==
    ppc # "failed"


\* C14: the raw-event queue never holds more than its maximum; a message read
\* while the queue is full is consumed by the listener in the same step and
\* dropped, leaving the queue as it was; a message read while there is room
\* leaves the events already queued in front of it, unchanged and in order.
C14_DropOnFull ==
    /\ [](Len(event_queue) <= MaxEventQueue)
    /\ [][received' # received =>
            IF Len(event_queue) = MaxEventQueue
            THEN /\ event_queue' = event_queue
                 /\ accepted' = accepted
            ELSE /\ Len(event_queue') >= Len(event_queue)
                 /\ SubSeq(event_queue', 1, Len(event_queue)) = event_queue]_vars

\* C14 witness: the queue is full and a message read while it was full has been
\* dropped, the listener having gone on to read a later message.
C14_Witness ==
    /\ Len(event_queue) = MaxEventQueue
    /\ \E d \in dropped : d < received /\ \A i \in 1..Len(event_queue) : event_queue[i].id # d

-----------------------------------------------------------------------------
\* Further properties of the Store (SpecStore)

\* C15: a Store method never waits for room in the notification queue while it
\* holds the Store lock, so no other Store call has to wait for the broadcaster.
C15_NoPutUnderLock ==
    \A t \in Tasks : pc[t] = "put" => lock # t


\* C16: a batch is flushed no later than one debounce window after its first
\* notification was dequeued: while a batch is being collected its age never
\* exceeds the window, whatever arrives meanwhile, and the flush happens at
\* the age of exactly one window.
C16_BoundedBatchLatency ==
    /\ [](bpc = "window" => batch_age <= DebounceMs)
    /\ [][Len(envelopes') > Len(envelopes) => batch_age = DebounceMs]_vars

\* C16 witness: a batch is at the end of its window with notifications that
\* joined it at different times after the first.
C16_Witness ==
    /\ bpc = "window"
    /\ batch_age = DebounceMs
    /\ Len(pending) >= 3

-----------------------------------------------------------------------------
\* Further properties of the user channel (SpecUser)

Registered(c) == \E i \in 1..Len(user_connections) : user_connections[i] = c

\* C17: when a broadcast ends, every connection that was registered when it
\* began and is still registered and open has been sent the message, whatever
\* happened to the other connections meanwhile; and every connection whose
\* send failed is no longer registered afterwards.
C17_BroadcastIsolation ==
    [][\A t \in Senders :
          (iter[t].idx > Len(user_connections) /\ iter[t].idx # 0 /\ iter'[t] # iter[t]) =>
              /\ \A c \in iter[t].targets :
                    (Registered(c) /\ wsOpen[c]) => c \in iter[t].got
              /\ \A i \in 1..Len(iter[t].failed) :
                    \A j \in 1..Len(user_connections') :
                        user_connections'[j] # iter[t].failed[i]]_vars

-----------------------------------------------------------------------------
\* ConnectionManager: the connection limit

\* ConnectionManager.__init__(max_connections=10)
MaxConnections == 10

\* The sockets that ask for a connection, in this order
Sockets == 1..MaxSockets

\* len(self.market_connections) >= self.max_connections
AtLimit(list) == Len(list) >= MaxConnections

connectFrame == <<storeVars, taskVars, pipeVars, watchVars, listenVars, keepVars,
                  hpc, wsOpen, inbox, iter, nUserOps, readVars, moreVars>>

\* connect_market up to its await: at the limit the socket is closed with code
\* 1008, else its accept begins
ConnectMarketCheck ==
    /\ nextSocket <= MaxSockets
    /\ Cardinality(accepting) < MaxAccepting
    /\ nextSocket' = nextSocket + 1
    /\ IF AtLimit(market_connections)
         THEN /\ policy_closed' = policy_closed \cup {nextSocket}
              /\ UNCHANGED accepting
         ELSE /\ accepting' = accepting \cup {nextSocket}
              /\ UNCHANGED policy_closed
    /\ UNCHANGED <<market_connections, user_connections, heartbeat_tasks, nDisconnects,
                   connectFrame>>

\* connect_market after its await: the socket is registered and its heartbeat
\* task created
ConnectMarketAccepted(s) ==
    /\ s \in accepting
    /\ accepting' = accepting \ {s}
    /\ market_connections' = Append(market_connections, s)
    /\ heartbeat_tasks' = [heartbeat_tasks EXCEPT ![s] = "running"]
    /\ UNCHANGED <<policy_closed, nextSocket, user_connections, nDisconnects, connectFrame>>

\* connect_user once the accept has completed
ConnectUser ==
    /\ nextSocket <= MaxSockets
    /\ nextSocket' = nextSocket + 1
    /\ user_connections' = Append(user_connections, nextSocket)
    /\ heartbeat_tasks' = [heartbeat_tasks EXCEPT ![nextSocket] = "running"]
    /\ UNCHANGED <<market_connections, accepting, policy_closed, nDisconnects, connectFrame>>

\* disconnect_market
DisconnectMarket(s) ==
    /\ s \in Members(market_connections)
    /\ nDisconnects < MaxDisconnects
    /\ nDisconnects' = nDisconnects + 1
    /\ market_connections' = RemoveAll(market_connections, <<s>>)
    /\ heartbeat_tasks' = CleanupHeartbeat(heartbeat_tasks, {s})
    /\ UNCHANGED <<accepting, policy_closed, nextSocket, user_connections, connectFrame>>

\* disconnect_user
DisconnectUserSocket(s) ==
    /\ s \in Members(user_connections)
    /\ nDisconnects < MaxDisconnects
    /\ nDisconnects' = nDisconnects + 1
    /\ user_connections' = DisconnectUser(user_connections, s)
    /\ heartbeat_tasks' = CleanupHeartbeat(heartbeat_tasks, {s})
    /\ UNCHANGED <<market_connections, accepting, policy_closed, nextSocket, connectFrame>>

InitConnect ==
    /\ StoreAtRest
    /\ WatchdogAtRest
    /\ ListenerAtRest
    /\ PipeAtRest
    /\ bqueue = <<>>
    /\ ConnectAtRest
    /\ ReadAtRest
    /\ user_connections = <<>>
    /\ hpc = [c \in Conns |-> "new"]
    /\ wsOpen = [c \in Conns |-> TRUE]
    /\ inbox = [c \in Conns |-> <<>>]
    /\ iter = [t \in Senders |-> NoIter]
    /\ nUserOps = 0
    /\ heartbeat_tasks = [s \in Sockets |-> "absent"]

NextConnect ==
    \/ ConnectMarketCheck
    \/ \E s \in Sockets : ConnectMarketAccepted(s)
    \/ ConnectUser
    \/ \E s \in Sockets : DisconnectMarket(s)
    \/ \E s \in Sockets : DisconnectUserSocket(s)

SpecConnect == InitConnect /\ [][NextConnect]_vars

-----------------------------------------------------------------------------
\* The connection has an entry in heartbeat_tasks
HasHeartbeatEntry(c) == heartbeat_tasks[c] # "absent"

\* C18: a connection whose heartbeat loop ended on a failed ping is no longer
\* registered on the user channel and has no heartbeat task entry left.
C18_HeartbeatFailureCloses ==
    \A c \in Conns :
        heartbeat_tasks[c] = "ended" => (~Registered(c) /\ ~HasHeartbeatEntry(c))

\* C19: no channel ever holds more than max_connections connections, and a
\* socket closed with the policy code 1008 is on no channel.
C19_ConnectionCap ==
    /\ Len(market_connections) <= MaxConnections
    /\ Len(user_connections) <= MaxConnections
    /\ \A s \in policy_closed :
          s \notin Members(market_connections) \cup Members(user_connections)

\* C20: after an execution report is applied to an order, an order with a
\* positive executed quantity has as average price the value of eight decimals
\* nearest to cumulative quote / executed quantity, and an order whose executed
\* quantity is zero has the average price it had before (0 for a new order).
C20_AveragePrice ==
    [][\A rep \in Reports :
          ( /\ rep.orderId \in DOMAIN orders'
            /\ orders'[rep.orderId].updateTime = rep.eventTime
            /\ orders'[rep.orderId].status = MapStatus(rep.status)
            /\ ExecStep(rep) ) =>
              LET o == orders'[rep.orderId] IN
              IF o.executedQty > 0
              THEN LET diff == o.avgPrice * o.executedQty - o.cummulativeQuoteQty * Scale
                   IN  2 * diff <= o.executedQty /\ 0 - 2 * diff <= o.executedQty
              ELSE o.avgPrice = IF rep.orderId \in DOMAIN orders
                                THEN orders[rep.orderId].avgPrice ELSE 0]_vars

\* C20 witness: an order REST reported with executed quantity 3 and quote 2 has
\* had a report applied: its average price is the rounded quotient, while an
\* order that executed nothing has average price 0.
C20_Witness ==
    /\ \E o \in DOMAIN orders :
          orders[o].executedQty = 3 /\ orders[o].avgPrice * 3 > 2 * Scale
    /\ \E o \in DOMAIN orders :
          orders[o].executedQty = 0 /\ orders[o].updateTime # 0 /\ orders[o].avgPrice = 0

\* C21: an execution report without a status for an order id not seen before
\* creates the order with status NEW and puts it in the open set.
C21_DefaultStatusOnCreation ==
    [][\A rep \in Reports :
          ( /\ rep.status = "None"
            /\ rep.orderId # NoOrderId
            /\ rep.orderId \notin DOMAIN orders
            /\ ExecStep(rep) ) =>
              /\ orders'[rep.orderId].status = "NEW"
              /\ rep.orderId \in open_orders']_vars

-----------------------------------------------------------------------------
\* Properties of the balance map (SpecBalance)

PositionStep(pos) == BodyStep([kind |-> "position", data |-> pos])
BalanceStep(upd) == BodyStep([kind |-> "balance", data |-> upd])

\* The notification the Store call of this step hands to the queue: enqueued at
\* once, or held by the caller that waits for room
NoteOfStep ==
    IF Len(bqueue') > Len(bqueue)
    THEN bqueue'[Len(bqueue')]
    ELSE arg'[CHOOSE t \in Tasks : pc'[t] = "put" /\ pc[t] # "put"].data

\* The step hands exactly one notification to the queue
OneNoteInStep ==
    \/ /\ Len(bqueue') = Len(bqueue) + 1
       /\ \A t \in Tasks : pc'[t] = "put" => pc[t] = "put"
    \/ /\ bqueue' = bqueue
       /\ Cardinality({t \in Tasks : pc'[t] = "put" /\ pc[t] # "put"}) = 1

\* C22: apply_account_position hands one balances notification to the queue,
\* listing exactly the assets the event supplies; the assets the event does not
\* name keep their entries.
C22_PositionNotifiesSuppliedAssets ==
    [][\A pos \in PositionEvents :
          PositionStep(pos) =>
              LET supplied == {Upper(pos[i].asset) : i \in 1..Len(pos)} \ {""} IN
              /\ OneNoteInStep
              /\ NoteOfStep.type = "balance_delta"
              /\ NoteOfStep.assets = supplied
              /\ \A a \in DOMAIN balances \ supplied :
                    a \in DOMAIN balances' /\ balances'[a] = balances[a]]_vars

\* C23: apply_balance_update adds the delta to the free amount of the named
\* asset (starting from free 0, locked 0 when the asset is new), leaves its
\* locked amount and every other entry as they were, and hands the queue one
\* balances notification that names only that asset.
C23_BalanceUpdateFrame ==
    [][\A upd \in BalanceEvents :
          (upd.asset # "" /\ BalanceStep(upd)) =>
              LET key == Upper(upd.asset)
                  seen == key \in DOMAIN balances
              IN  /\ DOMAIN balances' = DOMAIN balances \cup {key}
                  /\ balances'[key].free = (IF seen THEN balances[key].free ELSE 0) + upd.delta
                  /\ balances'[key].locked = (IF seen THEN balances[key].locked ELSE 0)
                  /\ \A a \in DOMAIN balances \ {key} : balances'[a] = balances[a]
                  /\ OneNoteInStep
                  /\ NoteOfStep.type = "balance_delta"
                  /\ NoteOfStep.assets = {key}]_vars

\* C23 witness: BTC, written as free 2 and locked 1 by an account position, has
\* had the delta -1 applied, next to an entry for ETH.
C23_Witness ==
    /\ "BTC" \in DOMAIN balances
    /\ balances["BTC"].free = 1
    /\ balances["BTC"].locked = 1
    /\ "ETH" \in DOMAIN balances

\* The upper-case asset names
UpperCaseNames == {"BTC", "ETH"}

\* C24: every key of the balance map is an upper-case asset name and is the
\* asset field of its entry, whatever the letter case of the names the events
\* and REST snapshots carried.
C24_BalanceKeysNormalized ==
    \A k \in DOMAIN balances :
        k \in UpperCaseNames /\ balances[k].asset = k

\* C24 witness: events naming btc, Btc or BTC and eth have been applied and the
\* map holds the two entries BTC and ETH, BTC with the amounts of the event
\* that named it twice in different letter case.
C24_Witness ==
    /\ DOMAIN balances = {"BTC", "ETH"}
    /\ balances["BTC"].free = 4
    /\ balances["BTC"].locked = 1

-----------------------------------------------------------------------------
\* Further properties of the Store (SpecStore)

\* C25: the statistics merge_rest_open_orders returns are the difference between
\* the REST snapshot and memory: added counts the REST ids that were not open,
\* removed the open ids REST does not list, placeholders the REST ids unknown
\* before.
C25_MergeStatsAreTheDifference ==
    [][\A rest \in RestSnapshots :
          MergeStep(rest) =>
              LET ids == rest.ids \ {NoOrderId}
                  stats == MergeRestOpenOrdersBody(rest).stats
              IN  /\ stats.added = Cardinality(ids \ open_orders)
                  /\ stats.removed = Cardinality(open_orders \ ids)
                  /\ stats.placeholders = Cardinality(ids \ DOMAIN orders)]_vars

\* The fills list of a history entry: {**existing} copies the reference, so it
\* is the list object of the live order (a known order is never replaced and
\* its fills list is only appended to)
EntryFills(e) == orders[e.orderId].fills

\* C26: an entry of the history ring never changes while it is in the ring:
\* neither its scalar fields nor its fills list.
C26_HistoryEntriesImmutable ==
    [][LET evicted == IF history' = history THEN 0
                      ELSE Len(history) + 1 - Len(history')
       IN  \A i \in (evicted + 1)..Len(history) :
               /\ history'[i - evicted] = history[i]
               /\ EntryFills(history[i])' = EntryFills(history[i])]_vars

-----------------------------------------------------------------------------
\* Properties of the history ring (SpecRing)

\* C27: the history ring never holds more than 200 entries, and
\* snapshot_history(limit) returns nothing for a limit that is not positive and
\* otherwise the limit most recent entries of the ring, the most recent first.
C27_BoundedRingMostRecentFirst ==
    /\ Len(history) <= HistoryMax
    /\ IF snapshot.limit <= 0
       THEN snapshot.items = <<>>
       ELSE /\ Len(snapshot.items) = Min(snapshot.limit, Len(snapshot.from))
            /\ \A i \in 1..Len(snapshot.items) :
                  snapshot.items[i] = snapshot.from[Len(snapshot.from) - i + 1]

-----------------------------------------------------------------------------
\* Properties of the Store with a failing durable store (SpecFinal)

\* C29: when the durable upsert raises while a report with a final status is
\* applied, apply_execution_report completes with the in-memory outcome of a
\* successful write: the order record is updated, the order is out of the
\* open set, its entry is the newest of the history ring and one order_delta
\* notification for it is handed to the queue; the table is left as it was.
C29_DurableFailureSwallowed ==
    [][\A rep \in FinalReports :
          ( /\ rep.durable = "raises"
            /\ MapStatus(rep.status) \in FinalStatuses
            /\ rep.orderId \in DOMAIN orders'
            /\ orders'[rep.orderId].status = MapStatus(rep.status)
            /\ ExecStep(rep) ) =>
              LET oid == rep.orderId
                  ok == ApplyExecutionReportBody([rep EXCEPT !.durable = "ok"])
              IN  /\ orders' = ok.orders
                  /\ orders'[oid].updateTime = rep.eventTime
                  /\ open_orders' = ok.open
                  /\ oid \notin open_orders'
                  /\ history' = ok.history
                  /\ history'[Len(history')].orderId = oid
                  /\ history'[Len(history')].status = MapStatus(rep.status)
                  /\ OneNoteInStep
                  /\ NoteOfStep = ok.note
                  /\ NoteOfStep.type = "order_delta"
                  /\ NoteOfStep.orderId = oid
                  /\ db' = db]_vars

\* A final order is in the history ring and out of the open set while the
\* table has no row for it: its durable write failed
C29_Witness ==
    \E i \in 1..Len(history) :
        /\ history[i].orderId \notin DOMAIN db
        /\ history[i].orderId \notin open_orders
        /\ orders[history[i].orderId].status \in FinalStatuses

-----------------------------------------------------------------------------
\* Properties of the Store under watchdog fallbacks (SpecFallback)

\* C33: a fallback whose open orders fetch failed leaves the open set as it
\* was, and a fallback whose balances fetch failed leaves the balance map as
\* it was.
C33_FailedFetchKeepsData ==
    [][\A fetch \in FallbackFetches :
          MergeStep(FetchedSnapshot(fetch)) =>
              /\ (~fetch.open_ok => open_orders' = open_orders)
              /\ (~fetch.account_ok => balances' = balances)]_vars

-----------------------------------------------------------------------------
\* Properties of the snapshot message of the user channel (SpecView)

\* C38: the openOrders, balances and history of an orders_snapshot message
\* are those of one Store state: the state in which the open orders and
\* balances were read, or the state in which the history was read.
C38_SnapshotIsOnePointInTime ==
    view.pc = "sent" =>
        \/ view.history = view.history_at_open
        \/ /\ view.openOrders = view.open_at_history
           /\ view.balances = view.balances_at_history

-----------------------------------------------------------------------------
\* Properties of the delivered order notifications (SpecNotify)

\* C37: every order notification delivered shows the order as it was right
\* after the report that produced the notification.
C37_NotificationsAreSnapshots ==
    \A i \in 1..Len(delivered) :
        /\ delivered[i].orderId = produced[i].orderId
        /\ delivered[i].order = produced[i].order

-----------------------------------------------------------------------------
\* Properties of process shutdown (SpecShutdown)

\* C31: after shutdown no loop task that was started is left running: each
\* has been cancelled (and ends at its await) or had ended before.
C31_NoLoopLeftRunning ==
    lifespan = "shutdown" => \A t \in LoopTasks : loops[t] # "running"

-----------------------------------------------------------------------------
\* Properties of BinanceWSApiClient (SpecApi)

\* C32: once a _send_request call has returned or raised, its id is not in
\* the pending-request map; when disconnect() ends the map is empty and every
\* future that was pending in it has got ConnectionError.
C32_NoPendingRequestLeak ==
    [][/\ \A id \in RequestIds :
             rpc'[id] \in {"returned", "raised", "cancelled"} => id \notin pending_requests'
       /\ (dpc = "closing" /\ dpc' = "idle") =>
             /\ pending_requests' = {}
             /\ \A id \in pending_requests :
                   futures[id] = "pending" => futures'[id] = "connection_error"]_vars

-----------------------------------------------------------------------------
\* Properties of MarketDataManager (SpecMarket)

\* C40: when the reconnect Timer of a closed stream fires for a symbol that
\* still has a subscriber, with reconnection enabled, a new stream thread is
\* started for that symbol (which can then connect again).
C40_ReconnectStartsStream ==
    [][\A symbol \in MarketSymbols :
          (/\ symbol \in reconnect_timers
           /\ symbol \notin reconnect_timers'
           /\ should_reconnect
           /\ symbol_subscribers[symbol] # {})
          => /\ active_streams'[symbol] # NoStream
             /\ active_streams'[symbol].thread \notin StartedThreads
             /\ stream_threads'[active_streams'[symbol].thread].state = "running"]_vars

-----------------------------------------------------------------------------
\* Properties of the orders_history table (SpecDb)

\* The row upsert_final_order writes for an order
RowOf(row, order) ==
    /\ row.status = order.status
    /\ row.executed_qty = order.executedQty
    /\ row.avg_price = order.avgPrice
    /\ row.cumm_quote = order.cummulativeQuoteQty
    /\ row.update_time = order.updateTime

\* C28: upsert_final_order keeps one row per order id and touches no other
\* row; for an id that has a row, an upsert whose update time is not strictly
\* newer leaves the row as it is and a strictly newer one overwrites status,
\* executed quantity, average price, cumulative quote and update time; the same
\* upsert applied a second time changes nothing.
C28_UpsertNewerWinsIdempotent ==
    [][\A order \in FinalOrders :
          UpsertCall(order) =>
              LET oid == order.orderId IN
              /\ DOMAIN db' = DOMAIN db \cup {oid}
              /\ \A o \in DOMAIN db \ {oid} : db'[o] = db[o]
              /\ IF oid \in DOMAIN db
                 THEN IF order.updateTime > db[oid].update_time
                      THEN RowOf(db'[oid], order) /\ db'[oid].symbol = db[oid].symbol
                      ELSE db'[oid] = db[oid]
                 ELSE RowOf(db'[oid], order) /\ db'[oid].symbol = order.symbol
              /\ UpsertFinalOrder(db', oid, order) = db']_vars

\* An upsert with the update time of the stored row and another status has
\* left the row as it was
C28_Witness ==
    /\ upserted.branch = "keep"
    /\ upserted.order.updateTime = db[upserted.order.orderId].update_time
    /\ upserted.order.status # db[upserted.order.orderId].status

\* The order ids a client has been given, page after page
RECURSIVE ReturnedIds(_)
ReturnedIds(pages) ==
    IF pages = <<>> THEN <<>> ELSE Head(pages) \o ReturnedIds(Tail(pages))

\* C30: following nextCursor from no cursor until hasMore is false, the
\* pages hold order ids in strictly descending order (so none twice), all of
\* rows that match the symbol, at most limit (the default for a limit that is
\* not positive) per page, every page after the first below the cursor it was
\* asked with; nextCursor is set exactly when hasMore is true and is then the
\* last order id returned; at the end every row that matched when the first
\* page was read has been returned.
C30_KeysetPagination ==
    pager.state # "idle" =>
        LET ids == ReturnedIds(pager.pages)
            lim == IF pager.limit <= 0 THEN DefaultLimit ELSE pager.limit
            last == pager.pages[Len(pager.pages)]
        IN  /\ \A i \in 1..(Len(ids) - 1) : ids[i] > ids[i + 1]
            /\ \A i \in 1..Len(ids) : ids[i] \in Matching(db, pager.symbol)
            /\ \A k \in 1..Len(pager.pages) : Len(pager.pages[k]) <= lim
            /\ \A k \in 2..Len(pager.pages) :
                  LET before == pager.pages[k - 1]
                  IN  \A i \in 1..Len(pager.pages[k]) :
                          pager.pages[k][i] < before[Len(before)]
            /\ (pager.cursor # NoCursor) = pager.has_more
            /\ pager.has_more => last # <<>> /\ pager.cursor = last[Len(last)]
            /\ pager.has_more = (pager.state = "paging")
            /\ pager.state = "done" =>
                  pager.table \subseteq {ids[i] : i \in 1..Len(ids)}

\* A read of the BTCUSDT rows one per page has ended after several pages while
\* rows of the other symbol were in the table
C30_Witness ==
    /\ pager.state = "done"
    /\ pager.symbol = "btcusdt"
    /\ pager.limit = 1
    /\ Len(pager.pages) >= 2
    /\ Cardinality(pager.table) >= 2
    /\ \E o \in DOMAIN db : db[o].symbol = "ETHUSDT"

====
